---- MODULE Spec2Model ----
(***************************************************************************)
(* A model of the SPACO core: the adaptive cache manager, the precompiled  *)
(* pattern store with its getById cache, and the staged conversion         *)
(* pipeline with its memoizing wrappers.                                   *)
(*                                                                         *)
(* Each subsystem has its own specification over the shared variables:     *)
(*   SpecACM   the adaptive cache manager and the caches it governs        *)
(*   SpecStore the pattern store driven by one caller, with storage faults *)
(*   SpecConc  the pattern store read by two threads while a third writes  *)
(*   SpecPipe  the conversion stages and the memoized pipeline             *)
(***************************************************************************)
EXTENDS Integers, Sequences, FiniteSets, TLC

VARIABLES
    \* ---- AdaptiveCacheManager fields (adaptive_cache_manager.py) ----
    cache_clear_callbacks,   \* list of registered callbacks, in registration order
    stats,                   \* the cumulative stats dictionary
    current_memory_usage,    \* last measured usage, in percent
    last_check_time,         \* time of the last effective check
    now,                     \* the wall clock, time.time(), in seconds
    \* ---- PatternManager and its durable table (precompiled_patterns.py) ----
    rows,                    \* the committed rows of table precompiled_patterns
    pattern_cache,           \* the lru_cache of PatternManager.get_pattern: id -> value
    clock,                   \* time.time() as the store reads it, in days
    last_op,                 \* the last store call: what was asked, what came back
    repeated,                \* the last store call repeated the one before it
    \* ---- what the registered callbacks act on ----
    pm_constructed,          \* a PatternManager has been constructed
    pipeline_constructed,    \* an OptimizedConversionPipeline has been constructed
    \* ---- history of the last check, and of the elevated state ----
    last_check,              \* what the most recent check_memory_usage call did
    elevated,                \* an eviction at/above high happened and usage has not
                             \* been measured below the low threshold since
    \* ---- threads calling the PatternManager (precompiled_patterns.py) ----
    readers,                 \* per reading thread: where its get_pattern call stands
    writer,                  \* the writing thread: where its save or delete stands
    last_get,                \* the get_pattern call that returned last
    \* ---- the conversion stages (converter.py, optimized_converter.py) ----
    stage_cache,             \* per memoized stage: the lru_cache of cached_func
    cache_hits,              \* per memoized stage: MemoizedConverter.cache_hits
    cache_misses,            \* per memoized stage: MemoizedConverter.cache_misses
    last_run,                \* the last convert_intent_to_code call
    prev_run,                \* the convert_intent_to_code call before it
    last_convert,            \* the last convert call on a plain stage
    last_memo,               \* the last convert call on a memoized stage
    \* ---- worker threads sharing the PatternManager (precompiled_patterns.py) ----
    workers,                 \* per worker thread: where its calls stand
    constructions,           \* how many times PatternManager.__init__ has run
    found,                   \* the last find_patterns_by_type call
    \* ---- PatternCatalog (pattern_catalog.py) ----
    catalog,                 \* the PatternCatalog object: initialized, pattern_count
    compile_count,           \* per catalog entry: compile_and_save calls made for it
    last_init,               \* the last initialize call
    \* ---- the monitor of the AdaptiveCacheManager (adaptive_cache_manager.py) ----
    monitor_thread,          \* self.monitor_thread: the number of a thread, 0 for None
    alive_threads,           \* the monitor threads that are alive
    stop_monitoring,         \* self.stop_monitoring, the Event: set or not
    threads_started,         \* how many monitor threads have been started
    last_mon,                \* the last start_monitoring or stop_monitor call
    \* ---- the representation levels (representation/*.py) ----
    last_trip,               \* the last to_dict / from_dict round trip of an object
    ir,                      \* a representation-level object and its _is_valid flag
    last_valid,              \* the last is_valid call on it
    \* ---- a _clear_all_caches call running next to other threads ----
    eviction,                \* where its loop over the callback list stands
    \* ---- the uses of patterns and the age-based sweep ----
    used_at,                 \* per pattern id: when a lookup last returned the pattern
    sweep                    \* the last clear_unused_patterns call: what it deleted

monVars == <<monitor_thread, alive_threads, stop_monitoring, threads_started, last_mon>>

acmVars == <<cache_clear_callbacks, stats, current_memory_usage, last_check_time,
             now, pm_constructed, pipeline_constructed, last_check, elevated, monVars>>

storeVars == <<rows, clock, last_op, repeated>>

workVars == <<workers, constructions, found>>

\* The state of the components added to the threads of the first development.
catVars == <<catalog, compile_count, last_init>>

\* The history of the representation levels.
irVars == <<last_trip, ir, last_valid>>

\* The _clear_all_caches call in progress.
evictVars == <<eviction>>

\* The history of lookups and sweeps.
sweepVars == <<used_at, sweep>>

extVars == <<workVars, catVars, irVars, evictVars, sweepVars>>

concVars == <<readers, writer, last_get, extVars>>

pipeVars == <<stage_cache, cache_hits, cache_misses, last_run, prev_run, last_convert,
              last_memo>>

vars == <<acmVars, storeVars, pattern_cache, concVars, pipeVars>>

-----------------------------------------------------------------------------
(* Bounds of the model *)

MaxChecks == 2          \* effective checks per behaviour
MaxNow == 20            \* the clock stops here
MaxHits == 2            \* counted cache hits per memoized stage
MaxThreads == 3         \* monitor threads started per behaviour

(* Program constants *)

HighMemoryThreshold == 85       \* 0.85, in percent
LowMemoryThreshold == 65        \* 0.65
CriticalMemoryThreshold == 95   \* 0.95
MinCheckSeconds == 5            \* minimum spacing of effective checks
ClockStart == 10                \* time.time() at construction: any value >= 5
Today == 1                      \* the store's clock, in days since the old row

\* Measured usages (percent of system memory): below low, between low and
\* high, exactly high, between high and critical, exactly critical.
UsageLevels == {60, 70, 85, 90, 95}

\* The callbacks that exist: the one PatternManager.__init__ registers and two
\* callbacks a caller may register (the test's mock_clear).  StageCallbacks are
\* the clear functions of the three memoized stages.
PatternCallback == "pattern_manager.cache_clear_callback"
UserCallbacks == {"mock_clear_1", "mock_clear_2"}
Stages == {"intent_to_param", "param_to_structure", "structure_to_code"}
StageCallbacks == {"intent_to_param.cache_clear", "param_to_structure.cache_clear",
                   "structure_to_code.cache_clear"}
AllCallbacks == {PatternCallback} \cup UserCallbacks \cup StageCallbacks

\* Python's None, a value of a type of its own (a record, so that it can be
\* compared with the patterns and results it stands in for).
None == [type |-> "NoneType"]

\* What callers compile and save: two names, two metadata values and three
\* (pattern_type, source_code) contents, two of them of the same type.
Names == {"a", "b"}
Metas == {"m1", "m2"}
Contents == {<<"synth_def", " 2 * 3">>, <<"synth_def", "sig">>, <<"effect", " 2 * 3">>}
MainContent == <<"synth_def", " 2 * 3">>
\* The metadata varies for the main content only.
CompileArgs == {a \in [name : Names, content : Contents, metadata : Metas] :
                    a.metadata = "m1" \/ a.content = MainContent}

\* Where a storage failure is injected into a call.
SaveFaults == {"none", "execute", "commit"}
ReadFaults == {"none", "io"}

-----------------------------------------------------------------------------
(* Helpers *)

Range(s) == {s[i] : i \in 1..Len(s)}

RemoveFirst(s, x) ==
    LET i == CHOOSE k \in 1..Len(s) : s[k] = x /\ \A j \in 1..(k-1) : s[j] # x
    IN  SubSeq(s, 1, i-1) \o SubSeq(s, i+1, Len(s))

EmptyCache == [i \in {} |-> None]

NoInvocation == [c \in AllCallbacks |-> 0]

-----------------------------------------------------------------------------
(* PrecompiledPattern and PatternCompiler *)

\* _calculate_pattern_id: md5 of "<pattern_type>:<source_code>", a function of
\* the type and the source alone (not of the name or the metadata).
CalculatePatternId(pattern_type, source_code) == <<"md5", pattern_type, source_code>>

PatternIds == {CalculatePatternId(c[1], c[2]) : c \in Contents}

\* The ids requests ask for while the cache manager is observed: one that is
\* stored and one that is not.
RequestIds == {CalculatePatternId(c[1], c[2]) : c \in {cc \in Contents : cc[1] = "synth_def"}}

\* str.strip() on the sources of the model.
Strip(source_code) == IF source_code = " 2 * 3" THEN "2 * 3" ELSE source_code

\* _optimize_synth_def: folds <number> <op> <number> into its value.
OptimizeSynthDef(code) == IF code = "2 * 3" THEN "6" ELSE code

\* _optimize_sc_code: strip, then the pass of the pattern type; the passes for
\* "pattern" and "effect" return the code unchanged.
OptimizeScCode(source_code, pattern_type) ==
    IF pattern_type = "synth_def" THEN OptimizeSynthDef(Strip(source_code))
    ELSE Strip(source_code)

\* compile_pattern: the PrecompiledPattern built at time t.
CompilePattern(a, t) ==
    [name |-> a.name, pattern_type |-> a.content[1], source_code |-> a.content[2],
     compiled_code |-> OptimizeScCode(a.content[2], a.content[1]),
     metadata |-> a.metadata, compilation_time |-> t]

IdOf(p) == CalculatePatternId(p.pattern_type, p.source_code)

-----------------------------------------------------------------------------
(* The durable table precompiled_patterns, as SQLite keeps it *)

\* The row INSERT writes for pattern p at time t.
NewRow(p, t) ==
    [name |-> p.name, pattern_type |-> p.pattern_type, pattern_id |-> IdOf(p),
     source_code |-> p.source_code, compiled_code |-> p.compiled_code,
     metadata |-> p.metadata, compilation_time |-> p.compilation_time,
     created_at |-> t, last_used_at |-> t]

\* The row UPDATE leaves for pattern p at time t: created_at is not assigned.
UpdatedRow(r, p, t) ==
    [r EXCEPT !.name = p.name, !.pattern_type = p.pattern_type,
              !.source_code = p.source_code, !.compiled_code = p.compiled_code,
              !.metadata = p.metadata, !.compilation_time = p.compilation_time,
              !.last_used_at = t]

\* The schema's constraints: pattern_id UNIQUE and UNIQUE(name, pattern_type).
ViolatesUniqueIdOnly(table, row) == \E r \in table : r.pattern_id = row.pattern_id
ViolatesUnique(table, row) ==
    \E r \in table : \/ r.pattern_id = row.pattern_id
                     \/ (r.name = row.name /\ r.pattern_type = row.pattern_type)

\* INSERT: refused (sqlite3.IntegrityError) when a constraint is violated.
DbInsertUnchecked(table, row) == [ok |-> TRUE, table |-> table \cup {row}]
DbInsert(table, row) ==
    IF ViolatesUnique(table, row) THEN [ok |-> FALSE, table |-> table]
    ELSE [ok |-> TRUE, table |-> table \cup {row}]

\* UPDATE ... WHERE pattern_id = ?: refused when the rewritten row collides
\* with another row.
DbUpdateAsInsert(table, p, t) == DbInsert(table, NewRow(p, t))
DbUpdate(table, p, t) ==
    LET hit == {r \in table : r.pattern_id = IdOf(p)}
        rest == table \ hit
        new == {UpdatedRow(r, p, t) : r \in hit}
    IN  IF \E n \in new : ViolatesUnique(rest, n) THEN [ok |-> FALSE, table |-> table]
        ELSE [ok |-> TRUE, table |-> rest \cup new]

\* The PrecompiledPattern get_pattern builds from a row.
PatternOfRow(r) ==
    [name |-> r.name, pattern_type |-> r.pattern_type, source_code |-> r.source_code,
     compiled_code |-> r.compiled_code, metadata |-> r.metadata,
     compilation_time |-> r.compilation_time]

CachePut(cache, id, v) ==
    [i \in DOMAIN cache \cup {id} |-> IF i = id THEN v ELSE cache[i]]

-----------------------------------------------------------------------------
(* PatternManager *)

\* save_pattern under @transaction(): SELECT the row of the pattern's id, then
\* UPDATE it or INSERT a new one; any exception in the body becomes
\* DatabaseError and the transaction rolls back.  The body ends with
\* get_pattern.cache_clear(); the commit follows the body, and what commit
\* raises is re-raised as it is after the rollback.
SavePattern(table, p, t, fault) ==
    LET existing == \E r \in table : r.pattern_id = IdOf(p)
        exec == IF fault = "execute" THEN [ok |-> FALSE, table |-> table]
                ELSE IF existing THEN DbUpdate(table, p, t)
                ELSE DbInsert(table, NewRow(p, t))
    IN  IF ~exec.ok
        THEN [result |-> "DatabaseError", table |-> table, cleared |-> FALSE]
        ELSE IF fault = "commit"
        THEN [result |-> "sqlite3.OperationalError", table |-> table, cleared |-> TRUE]
        ELSE [result |-> "True", table |-> exec.table, cleared |-> TRUE]

\* get_pattern behind lru_cache(maxsize=None): a cached id is answered from the
\* cache; otherwise the row is read, its last_used_at is set, and whatever the
\* body returns (the pattern, or None for a missing row or a caught exception)
\* is kept in the cache.
GetPattern(table, cache, id, t, fault) ==
    IF id \in DOMAIN cache
    THEN [result |-> cache[id], table |-> table, cache |-> cache]
    ELSE LET hit == {r \in table : r.pattern_id = id}
         IN  IF fault # "none" \/ hit = {}
             THEN [result |-> None, table |-> table, cache |-> CachePut(cache, id, None)]
             ELSE LET r == CHOOSE x \in hit : TRUE
                      touched == [r EXCEPT !.last_used_at = t]
                  IN  [result |-> PatternOfRow(r),
                       table |-> (table \ hit) \cup {touched},
                       cache |-> CachePut(cache, id, PatternOfRow(r))]

\* delete_pattern: DELETE, commit, cache_clear; an exception returns False
\* before the cache is cleared.
DeletePattern(table, cache, id, fault) ==
    IF fault # "none"
    THEN [result |-> "False", table |-> table, cache |-> cache]
    ELSE [result |-> IF \E r \in table : r.pattern_id = id THEN "True" ELSE "False",
          table |-> {r \in table : r.pattern_id # id},
          cache |-> EmptyCache]

\* clear_unused_patterns: deletes the rows last used before the cutoff.
ClearUnusedPatterns(table, cache, days, t, fault) ==
    IF fault # "none"
    THEN [result |-> 0, table |-> table, cache |-> cache]
    ELSE LET old == {r \in table : r.last_used_at < t - days}
         IN  [result |-> Cardinality(old), table |-> table \ old, cache |-> EmptyCache]

\* The bookkeeping of a store call.
Record(op, arg, fault, result) == [op |-> op, arg |-> arg, fault |-> fault, result |-> result]

Called(op, arg, fault, result) ==
    /\ last_op' = Record(op, arg, fault, result)
    /\ repeated' = (last_op.op = op /\ last_op.arg = arg /\ last_op.fault = fault)

\* compile_and_save: compile, then save_pattern; what save_pattern raises
\* propagates.  The record keeps the compiled pattern beside the outcome.
CompileAndSave(a, fault) ==
    LET p == CompilePattern(a, clock)
        r == SavePattern(rows, p, clock, fault)
    IN  /\ rows' = r.table
        /\ pattern_cache' = IF r.cleared THEN EmptyCache ELSE pattern_cache
        /\ Called("compile_and_save", a, fault, [pattern |-> p, outcome |-> r.result])
        /\ UNCHANGED <<clock, acmVars, concVars, pipeVars>>

GetPatternCall(id, fault) ==
    LET r == GetPattern(rows, pattern_cache, id, clock, fault)
    IN  /\ rows' = r.table
        /\ pattern_cache' = r.cache
        /\ Called("get_pattern", id, fault, r.result)
        /\ UNCHANGED <<clock, acmVars, concVars, pipeVars>>

DeletePatternCall(id, fault) ==
    LET r == DeletePattern(rows, pattern_cache, id, fault)
    IN  /\ rows' = r.table
        /\ pattern_cache' = r.cache
        /\ Called("delete_pattern", id, fault, r.result)
        /\ UNCHANGED <<clock, acmVars, concVars, pipeVars>>

ClearUnusedPatternsCall(days, fault) ==
    LET r == ClearUnusedPatterns(rows, pattern_cache, days, clock, fault)
    IN  /\ rows' = r.table
        /\ pattern_cache' = r.cache
        /\ Called("clear_unused_patterns", days, fault, r.result)
        /\ UNCHANGED <<clock, acmVars, concVars, pipeVars>>

-----------------------------------------------------------------------------
(* PatternManager called from several threads *)

\* Two threads read one pattern while a third saves or deletes it.
Readers == {"r1", "r2"}
SharedId == CalculatePatternId(MainContent[1], MainContent[2])
SharedArgs == {a \in CompileArgs : a.name = "a" /\ a.content = MainContent}

IdleReader == [pc |-> "idle", id |-> None, row |-> None, result |-> None, fresh |-> FALSE]
IdleWriter == [pc |-> "idle", pending |-> {}]
NoGet == [id |-> None, result |-> None, fresh |-> FALSE, stored |-> None]

\* What the committed table holds for an id, as get_pattern would build it.
StoredValue(table, id) ==
    IF \E r \in table : r.pattern_id = id
    THEN PatternOfRow(CHOOSE r \in table : r.pattern_id = id)
    ELSE None

\* A write that begins makes the get_pattern calls in flight concurrent with it.
Overlapped(rs) == [r \in Readers |-> [rs[r] EXCEPT !.fresh = FALSE]]

\* The transaction of save_pattern is open: it holds SQLite's write lock.
WriteLocked == writer.pc \in {"cache_clear", "commit"}

\* get_pattern, entry: lru_cache looks the key up; a hit returns at once.
GetStart(r, id) ==
    /\ readers[r].pc = "idle"
    /\ IF id \in DOMAIN pattern_cache
       THEN /\ last_get' = [id |-> id, result |-> pattern_cache[id],
                            fresh |-> (writer.pc = "idle"),
                            stored |-> StoredValue(rows, id)]
            /\ UNCHANGED readers
       ELSE /\ readers' = [readers EXCEPT ![r] =
                              [pc |-> "select", id |-> id, row |-> None,
                               result |-> None, fresh |-> (writer.pc = "idle")]]
            /\ UNCHANGED last_get
    /\ UNCHANGED <<rows, pattern_cache, writer, clock, last_op, repeated, acmVars, pipeVars, extVars>>

\* get_pattern, SELECT: reads the committed row; no row returns None.
GetSelect(r) ==
    /\ readers[r].pc = "select"
    /\ LET hit == {x \in rows : x.pattern_id = readers[r].id}
       IN  readers' = [readers EXCEPT ![r] =
               IF hit = {} THEN [@ EXCEPT !.pc = "store", !.result = None]
               ELSE [@ EXCEPT !.pc = "update", !.row = CHOOSE x \in hit : TRUE]]
    /\ UNCHANGED <<rows, pattern_cache, writer, last_get, clock, last_op, repeated,
                   acmVars, pipeVars, extVars>>

\* get_pattern, UPDATE last_used_at and commit (waits for the write lock), then
\* builds the pattern from the row it selected.
GetUpdate(r) ==
    /\ readers[r].pc = "update"
    /\ ~WriteLocked
    /\ rows' = {IF x.pattern_id = readers[r].id THEN [x EXCEPT !.last_used_at = clock]
                ELSE x : x \in rows}
    /\ readers' = [readers EXCEPT ![r] =
                      [@ EXCEPT !.pc = "store", !.result = PatternOfRow(readers[r].row)]]
    /\ UNCHANGED <<pattern_cache, writer, last_get, clock, last_op, repeated,
                   acmVars, pipeVars, extVars>>

\* get_pattern, return: lru_cache stores what the body returned under the key.
GetStore(r) ==
    /\ readers[r].pc = "store"
    /\ pattern_cache' = CachePut(pattern_cache, readers[r].id, readers[r].result)
    /\ last_get' = [id |-> readers[r].id, result |-> readers[r].result,
                    fresh |-> readers[r].fresh,
                    stored |-> StoredValue(rows, readers[r].id)]
    /\ readers' = [readers EXCEPT ![r] = IdleReader]
    /\ UNCHANGED <<rows, writer, clock, last_op, repeated, acmVars, pipeVars, extVars>>

\* compile_and_save -> save_pattern, the statements of the body inside the
\* open transaction.
SaveExecute(a) ==
    /\ writer.pc = "idle"
    /\ LET r == SavePattern(rows, CompilePattern(a, clock), clock, "none")
       IN  /\ r.result = "True"
           /\ writer' = [pc |-> "cache_clear", pending |-> r.table]
    /\ readers' = Overlapped(readers)
    /\ UNCHANGED <<rows, pattern_cache, last_get, clock, last_op, repeated,
                   acmVars, pipeVars, extVars>>

\* save_pattern, the end of the body: get_pattern.cache_clear().
SaveCacheClear ==
    /\ writer.pc = "cache_clear"
    /\ pattern_cache' = EmptyCache
    /\ writer' = [writer EXCEPT !.pc = "commit"]
    /\ UNCHANGED <<rows, readers, last_get, clock, last_op, repeated, acmVars, pipeVars, extVars>>

\* transaction(), after the body: conn.commit(); save_pattern returns.
SaveCommit ==
    /\ writer.pc = "commit"
    /\ rows' = writer.pending
    /\ writer' = IdleWriter
    /\ UNCHANGED <<pattern_cache, readers, last_get, clock, last_op, repeated,
                   acmVars, pipeVars, extVars>>

\* delete_pattern: DELETE and conn.commit().
DeleteExecute(id) ==
    /\ writer.pc = "idle"
    /\ rows' = {x \in rows : x.pattern_id # id}
    /\ writer' = [pc |-> "delete_cache_clear", pending |-> {}]
    /\ readers' = Overlapped(readers)
    /\ UNCHANGED <<pattern_cache, last_get, clock, last_op, repeated, acmVars, pipeVars, extVars>>

\* delete_pattern: get_pattern.cache_clear(); delete_pattern returns.
DeleteCacheClear ==
    /\ writer.pc = "delete_cache_clear"
    /\ pattern_cache' = EmptyCache
    /\ writer' = IdleWriter
    /\ UNCHANGED <<rows, readers, last_get, clock, last_op, repeated, acmVars, pipeVars, extVars>>

InitThreads ==
    /\ readers = [r \in Readers |-> IdleReader]
    /\ writer = IdleWriter
    /\ last_get = NoGet

-----------------------------------------------------------------------------
(* The representation levels and their validation *)

\* What a call does: it returns a value or raises an exception.
Return(v) == [raised |-> FALSE, value |-> v]
Raise(e) == [raised |-> TRUE, exc |-> e]

ValidationError(level, field) == [type |-> "ValidationError", level |-> level, field |-> field]

\* ConversionError(message, source_level, target_level, original_exception)
ConversionError(source_level, target_level, original_exception) ==
    [type |-> "ConversionError", source_level |-> source_level,
     target_level |-> target_level, original_exception |-> original_exception]

\* dict[k] = v
DictPut(d, k, v) == [i \in DOMAIN d \cup {k} |-> IF i = k THEN v ELSE d[i]]
EmptyDict == [i \in {} |-> None]

\* The members of IntentType and StructureType the model uses, and the
\* intents callers build: a type that may not be an IntentType, a description
\* that may be empty, a confidence (in hundredths) that may exceed 1.0.
IntentTypes == {"GENERATE_SOUND", "APPLY_EFFECT", "ADJUST_PARAMETER"}
StructureTypes == {"SYNTH_DEF", "EFFECT_CHAIN", "CUSTOM", "UNKNOWN"}
CodeTypes == {"SYNTH", "PATTERN", "EFFECT", "SEQUENCE", "SYNTHDEF", "CONTROL", "ROUTINE",
              "TASK", "SERVER", "FUNCTION", "COMPOSITE", "CUSTOM", "UNKNOWN"}
Descriptions == {"", "440Hz sine wave", "saw lead"}
Intents ==
    {x \in [level : {"IntentLevel"},
            intent_type : IntentTypes \cup {"not an IntentType"},
            description : Descriptions,
            metadata : {<< >>},
            confidence : {100, 150}] :
        \* at most one field is wrong
        /\ x.intent_type \in IntentTypes \/ (x.description # "" /\ x.confidence = 100)
        /\ x.description # "" \/ x.confidence = 100}

\* IntentLevel.validate
ValidateIntent(x) ==
    IF x.intent_type \notin IntentTypes
    THEN Raise(ValidationError("IntentLevel", "intent_type"))
    ELSE IF x.description = ""
    THEN Raise(ValidationError("IntentLevel", "description"))
    ELSE IF ~(0 <= x.confidence /\ x.confidence <= 100)
    THEN Raise(ValidationError("IntentLevel", "confidence"))
    ELSE Return(TRUE)

\* The values parameters, components and variables hold: numbers and strings.
Num(n) == [num |-> n]
Str(t) == [str |-> t]

\* A level or a name that is not given (None where a string is expected).
NoName == "None"

\* ParameterValue(value_type, value) and ParameterValue.validate
ParameterValue(value) == [value_type |-> "static", value |-> value]
ParameterValueIsValid(v) == v.value_type # "" /\ v.value # None

\* ParameterLevel.validate
ValidateParameters(x) ==
    IF DOMAIN x.parameters = {}
    THEN Raise(ValidationError("ParameterLevel", "parameters"))
    ELSE IF \E n \in DOMAIN x.parameters : ~ParameterValueIsValid(x.parameters[n])
    THEN Raise(ValidationError("ParameterLevel", "parameters.<name>"))
    ELSE Return(TRUE)

\* StructureLevel.validate
ValidateStructure(x) ==
    IF x.structure_type \notin StructureTypes
    THEN Raise(ValidationError("StructureLevel", "structure_type"))
    ELSE IF DOMAIN x.components = {} /\ x.structure_type \notin {"CUSTOM", "UNKNOWN"}
    THEN Raise(ValidationError("StructureLevel", "components"))
    ELSE IF \E c \in x.connections : c[1] \notin DOMAIN x.components
                                     \/ c[2] \notin DOMAIN x.components
    THEN Raise(ValidationError("StructureLevel", "connections"))
    ELSE Return(TRUE)

\* The {name} placeholders of the built-in code templates, a template being
\* named by its structure type and its key (StructureToCodeConverter).
CodeTemplatePlaceholders(template) ==
    IF template = <<"SYNTH_DEF", "pad">> THEN {"freq", "amp"}
    ELSE IF template[1] = "SYNTH_DEF" THEN {"freq", "amp", "duration"}
    ELSE {"mix", "room", "damp", "input_sound"}

\* CodeLevel.validate on what the code stage builds: the code type is a
\* CodeType, the template is not empty, every placeholder has a variable.
ValidateCode(x) ==
    IF x.code_type \notin CodeTypes
    THEN Raise(ValidationError("CodeLevel", "code_type"))
    ELSE IF x.template = << >>
    THEN Raise(ValidationError("CodeLevel", "template"))
    ELSE IF \E n \in CodeTemplatePlaceholders(x.template) : n \notin DOMAIN x.variables
    THEN Raise(ValidationError("CodeLevel", "variables"))
    ELSE Return(TRUE)

\* RepresentationLevel.validate of the level's class
Validate(x) ==
    CASE x.level = "IntentLevel" -> ValidateIntent(x)
      [] x.level = "ParameterLevel" -> ValidateParameters(x)
      [] x.level = "StructureLevel" -> ValidateStructure(x)
      [] x.level = "CodeLevel" -> ValidateCode(x)

\* RepresentationLevel.is_valid on an object not validated before: _is_valid
\* is False, so validate() runs; what it raises propagates.
IsValid(x) == Validate(x)

-----------------------------------------------------------------------------
(* The three conversion stages (converter.py).  Amplitudes, durations and  *)
(* mixes are in hundredths, frequencies in Hz.                             *)

\* IntentToParameterConverter.default_parameters; .get(intent_type, {})
DefaultParameters(intent_type) ==
    CASE intent_type = "GENERATE_SOUND" ->
             [frequency |-> ParameterValue(Num(440)), amplitude |-> ParameterValue(Num(50)),
              duration |-> ParameterValue(Num(100))]
      [] intent_type = "APPLY_EFFECT" ->
             [effect_type |-> ParameterValue(Str("reverb")), mix |-> ParameterValue(Num(50)),
              depth |-> ParameterValue(Num(50))]
      [] OTHER -> EmptyDict

\* word in description.lower(), on the descriptions of the model
Mentions(description, word) ==
    \/ (description = "440Hz sine wave" /\ word = "sine")
    \/ (description = "saw lead" /\ word = "saw")
    \/ (description = "square bass" /\ word = "square")
    \/ (description = "triangle pluck" /\ word = "triangle")

\* IntentToParameterConverter._convert_impl: the defaults of the intent type,
\* and for GENERATE_SOUND a waveform guessed from the description.
IntentToParameterImpl(x) ==
    LET defaults == DefaultParameters(x.intent_type)
        waveform == IF Mentions(x.description, "sine") THEN "sine"
                    ELSE IF Mentions(x.description, "saw") THEN "saw"
                    ELSE IF Mentions(x.description, "square") THEN "square"
                    ELSE IF Mentions(x.description, "triangle") THEN "triangle"
                    ELSE "sine"
    IN  Return([level |-> "ParameterLevel",
                parameters |-> IF "waveform" \notin DOMAIN defaults
                                  /\ x.intent_type = "GENERATE_SOUND"
                               THEN DictPut(defaults, "waveform", ParameterValue(Str(waveform)))
                               ELSE defaults,
                source_intent |-> x.intent_type])

\* ParameterToStructureConverter.structure_templates, in the dict's order.
StructureTemplates ==
    << [name |-> "basic_sine", structure_type |-> "SYNTH_DEF",
        required_params |-> {"frequency", "amplitude", "duration"},
        optional_params |-> {"phase"}, attr |-> "waveform", value |-> "sine"],
       [name |-> "basic_saw", structure_type |-> "SYNTH_DEF",
        required_params |-> {"frequency", "amplitude", "duration"},
        optional_params |-> {"phase"}, attr |-> "waveform", value |-> "saw"],
       [name |-> "pad_sound", structure_type |-> "SYNTH_DEF",
        required_params |-> {"frequency", "amplitude"},
        optional_params |-> {"attack", "decay", "sustain", "release"},
        attr |-> "waveform", value |-> "pad"],
       [name |-> "effect_reverb", structure_type |-> "EFFECT_CHAIN",
        required_params |-> {"mix", "room"},
        optional_params |-> {"damp", "input_sound"},
        attr |-> "effect_type", value |-> "reverb"] >>

\* _select_template, the tests of one template and its score
TemplateMatches(t, ps) ==
    /\ t.required_params \subseteq DOMAIN ps
    /\ t.attr \in DOMAIN ps => ps[t.attr].value = Str(t.value)

TemplateScore(t, ps) ==
    Cardinality(t.required_params) + Cardinality(t.optional_params \cap DOMAIN ps)

\* The loop with >= in place of >.
RECURSIVE SelectFromLast(_, _, _, _)
SelectFromLast(ts, ps, best_match, best_score) ==
    IF ts = << >> THEN best_match
    ELSE IF TemplateMatches(Head(ts), ps) /\ TemplateScore(Head(ts), ps) >= best_score
    THEN SelectFromLast(Tail(ts), ps, Head(ts), TemplateScore(Head(ts), ps))
    ELSE SelectFromLast(Tail(ts), ps, best_match, best_score)

\* _select_template, the loop: a later template wins only with a higher score.
RECURSIVE SelectFrom(_, _, _, _)
SelectFrom(ts, ps, best_match, best_score) ==
    IF ts = << >> THEN best_match
    ELSE IF TemplateMatches(Head(ts), ps) /\ TemplateScore(Head(ts), ps) > best_score
    THEN SelectFrom(Tail(ts), ps, Head(ts), TemplateScore(Head(ts), ps))
    ELSE SelectFrom(Tail(ts), ps, best_match, best_score)

\* The loop with a later template winning on an equal score too.
SelectLastBest(ps) == SelectFromLast(StructureTemplates, ps, None, -1)
SelectTemplate(ps) == SelectFrom(StructureTemplates, ps, None, -1)

FromPairs(S) == [n \in {pr[1] : pr \in S} |-> (CHOOSE pr \in S : pr[1] = n)[2]]

\* ParameterToStructureConverter._convert_impl, the components of a synth
SynthComponents(ps) ==
    LET env == {"attack", "decay", "sustain", "release"} \cap DOMAIN ps
        d == ps["duration"].value
    IN  FromPairs(
          (IF "frequency" \in DOMAIN ps
           THEN {<<"oscillator", [type |-> IF "waveform" \in DOMAIN ps
                                           THEN ps["waveform"].value ELSE Str("sine"),
                                  frequency |-> ps["frequency"].value]>>}
           ELSE {})
          \cup (IF env # {} THEN {<<"envelope", [n \in env |-> ps[n].value]>>}
                ELSE IF "duration" \in DOMAIN ps
                THEN {<<"envelope", [type |-> Str("linen"), attack |-> Num(1),
                                     sustain |-> Num(IF d.num > 2 THEN d.num - 2 ELSE 1),
                                     release |-> Num(1)]>>}
                ELSE {})
          \cup (IF "amplitude" \in DOMAIN ps
                THEN {<<"amplitude", [value |-> ps["amplitude"].value]>>}
                ELSE {})
          \cup {<<"output", [channels |-> 2, doneAction |-> 2]>>})

\* ... and of an effect chain
EffectComponents(ps) ==
    LET effect_type == IF "effect_type" \in DOMAIN ps THEN ps["effect_type"].value
                       ELSE Str("reverb")
        names == IF effect_type = Str("reverb") THEN {"mix", "room", "damp"} \cap DOMAIN ps
                 ELSE {}
    IN  FromPairs(
          {<<"effect", [type |-> effect_type,
                        parameters |-> [n \in names |-> ps[n].value]]>>}
          \cup (IF "input_sound" \in DOMAIN ps
                THEN {<<"input", [sound |-> ps["input_sound"].value]>>}
                ELSE {})
          \cup {<<"output", [channels |-> 2]>>})

\* ... and the connections between the components that exist
Connections(structure_type, components) ==
    LET chain == IF structure_type = "SYNTH_DEF"
                 THEN {<<"oscillator", "envelope">>, <<"envelope", "amplitude">>,
                       <<"amplitude", "output">>}
                 ELSE {<<"input", "effect">>, <<"effect", "output">>}
    IN  {c \in chain : c[1] \in DOMAIN components /\ c[2] \in DOMAIN components}

\* ParameterToStructureConverter._convert_impl
ParameterToStructureImpl(x) ==
    LET t == SelectTemplate(x.parameters)
    IN  IF t = None
        THEN Raise(ConversionError("ParameterLevel", "StructureLevel", None))
        ELSE LET components == IF t.structure_type = "SYNTH_DEF"
                               THEN SynthComponents(x.parameters)
                               ELSE EffectComponents(x.parameters)
             IN  Return([level |-> "StructureLevel",
                         structure_type |-> t.structure_type,
                         components |-> components,
                         connections |-> Connections(t.structure_type, components),
                         source_parameters |-> DOMAIN x.parameters,
                         metadata |-> [template_name |-> t.name]])

\* StructureToCodeConverter.code_templates: the templates of each structure type
CodeTemplates(structure_type) ==
    CASE structure_type = "SYNTH_DEF" -> {"sine", "saw", "pad"}
      [] structure_type = "EFFECT_CHAIN" -> {"reverb"}
      [] OTHER -> {}

\* StructureToCodeConverter._select_template
SelectCodeTemplate(x) ==
    LET waveform == IF "oscillator" \in DOMAIN x.components
                       /\ "type" \in DOMAIN x.components["oscillator"]
                    THEN x.components["oscillator"].type.str ELSE "sine"
        effect_type == IF "effect" \in DOMAIN x.components
                          /\ "type" \in DOMAIN x.components["effect"]
                       THEN x.components["effect"].type.str ELSE "reverb"
    IN  IF CodeTemplates(x.structure_type) = {}
        THEN Raise(ConversionError("StructureLevel", "CodeLevel", None))
        ELSE IF x.structure_type = "SYNTH_DEF"
        THEN Return([code_type |-> "SYNTH",
                     template |-> <<"SYNTH_DEF",
                                    IF waveform \in CodeTemplates("SYNTH_DEF")
                                    THEN waveform ELSE "sine">>])
        ELSE Return([code_type |-> "EFFECT",
                     template |-> <<"EFFECT_CHAIN",
                                    IF effect_type \in CodeTemplates("EFFECT_CHAIN")
                                    THEN effect_type ELSE "reverb">>])

\* StructureToCodeConverter._convert_impl, the variables read from the
\* components, then the defaults of those that are missing
CodeVariables(x) ==
    LET cs == x.components
        has(c, f) == c \in DOMAIN cs /\ f \in DOMAIN cs[c]
        ep == IF has("effect", "parameters") THEN cs["effect"].parameters ELSE EmptyDict
        synth == x.structure_type = "SYNTH_DEF"
        effect == x.structure_type = "EFFECT_CHAIN"
    IN  FromPairs(
          {<<"freq", IF synth /\ has("oscillator", "frequency")
                     THEN cs["oscillator"].frequency ELSE Num(440)>>,
           <<"amp", IF synth /\ has("amplitude", "value")
                    THEN cs["amplitude"].value ELSE Num(50)>>,
           <<"duration", IF synth /\ has("envelope", "sustain")
                         THEN cs["envelope"].sustain ELSE Num(100)>>}
          \cup (IF effect
                THEN {<<"mix", IF "mix" \in DOMAIN ep THEN ep["mix"] ELSE Num(33)>>,
                      <<"room", IF "room" \in DOMAIN ep THEN ep["room"] ELSE Num(50)>>,
                      <<"damp", IF "damp" \in DOMAIN ep THEN ep["damp"] ELSE Num(50)>>,
                      <<"input_sound", IF has("input", "sound") THEN cs["input"].sound
                                       ELSE Str("WhiteNoise.ar(0.2)")>>}
                ELSE {}))

\* StructureToCodeConverter._convert_impl
StructureToCodeImpl(x) ==
    LET t == SelectCodeTemplate(x)
    IN  IF t.raised THEN t
        ELSE Return([level |-> "CodeLevel", code_type |-> t.value.code_type,
                     template |-> t.value.template, variables |-> CodeVariables(x),
                     source_structure |-> x.structure_type,
                     source_parameters |-> x.source_parameters])

\* The _convert_impl of each plain stage.
ConvertImpl(stage, x) ==
    CASE stage = "intent_to_param" -> IntentToParameterImpl(x)
      [] stage = "param_to_structure" -> ParameterToStructureImpl(x)
      [] stage = "structure_to_code" -> StructureToCodeImpl(x)

\* BaseConverter._validate_input: is_valid() is called outside any try, so what
\* validate() raises leaves _validate_input as it is; a False answer raises
\* ConversionError.
ValidateInput(x) ==
    LET v == IsValid(x)
    IN  IF v.raised THEN v
        ELSE IF ~v.value THEN Raise(ConversionError(x.level, NoName, None))
        ELSE Return(None)

\* BaseConverter.convert around an implementation's outcome: ConversionError
\* passes, any other exception is wrapped with the source level and the cause.
Wrapped(x, r) ==
    IF r.raised /\ r.exc.type # "ConversionError"
    THEN Raise(ConversionError(x.level, NoName, r.exc))
    ELSE r

\* BaseConverter.convert
Convert(stage, x) ==
    LET v == ValidateInput(x)
    IN  IF v.raised THEN v ELSE Wrapped(x, ConvertImpl(stage, x))

-----------------------------------------------------------------------------
(* The memoized stages and their pipeline (optimized_converter.py) *)

\* A dict is the sequence of its items in insertion order.  The metadata
\* callers attach to an intent: one dict, built in its two insertion orders.
MetadataKeyRank == [genre |-> 1, mood |-> 2]
MetadataOrders == {<<<<"genre", "ambient">>, <<"mood", "calm">>>>,
                   <<<<"mood", "calm">>, <<"genre", "ambient">>>>}
TaggedIntents ==
    {[x EXCEPT !.metadata = m] :
        x \in {i \in Intents : i.intent_type \in IntentTypes /\ i.description # ""},
        m \in MetadataOrders}

\* tuple(sorted(d.items())): the items by ascending key.
RECURSIVE SortedItems(_)
SortedItems(items) ==
    IF items = << >> THEN << >>
    ELSE LET i == CHOOSE k \in 1..Len(items) :
                      \A j \in 1..Len(items) :
                          MetadataKeyRank[items[k][1]] <= MetadataKeyRank[items[j][1]]
         IN  <<items[i]>> \o SortedItems(SubSeq(items, 1, i - 1)
                                             \o SubSeq(items, i + 1, Len(items)))

\* The hashable arguments Memoized*.convert builds from its input.
StageKey(stage, x) ==
    CASE stage = "intent_to_param" ->
             <<x.intent_type, x.description, SortedItems(x.metadata), x.confidence>>
      [] stage = "param_to_structure" -> <<x.parameters, x.source_intent>>
      [] stage = "structure_to_code" ->
             <<x.structure_type, x.components, x.connections, x.source_parameters,
               x.metadata>>

\* The representation the keyed _convert_impl rebuilds from those arguments.
Rebuilt(stage, key) ==
    CASE stage = "intent_to_param" ->
             [level |-> "IntentLevel", intent_type |-> key[1], description |-> key[2],
              metadata |-> key[3], confidence |-> key[4]]
      [] stage = "param_to_structure" ->
             [level |-> "ParameterLevel", parameters |-> key[1], source_intent |-> key[2]]
      [] stage = "structure_to_code" ->
             [level |-> "StructureLevel", structure_type |-> key[1],
              components |-> key[2], connections |-> key[3],
              source_parameters |-> key[4], metadata |-> key[5]]

\* The positional parameters of the _convert_impl each Memoized class defines.
KeyedArity(stage) ==
    CASE stage = "intent_to_param" -> 4
      [] stage = "param_to_structure" -> 2
      [] stage = "structure_to_code" -> 5

\* self._convert_impl_original, bound in __init__ by
\* "self._convert_impl_original = self._convert_impl": the lookup finds the
\* _convert_impl of the Memoized class itself, first in the MRO, not the plain
\* stage's.  Called with other than its own number of arguments it raises
\* TypeError; called with that number it would enter the keyed function again.
ConvertImplOriginal(stage, args) ==
    IF Len(args) # KeyedArity(stage) THEN Raise([type |-> "TypeError"])
    ELSE Raise([type |-> "RecursionError"])

\* Memoized*._convert_impl(key...): rebuild the input, call the original.
KeyedConvertImpl(stage, key) == ConvertImplOriginal(stage, <<Rebuilt(stage, key)>>)

\* cached_func under lru_cache: a cached key is answered from the cache;
\* otherwise the function runs, and only when it returns is the result kept
\* and cache_misses counted.
CachedFunc(stage, cache, misses, key) ==
    IF key \in DOMAIN cache
    THEN [result |-> Return(cache[key]), cache |-> cache, misses |-> misses, hit |-> TRUE]
    ELSE LET r == KeyedConvertImpl(stage, key)
         IN  IF r.raised
             THEN [result |-> r, cache |-> cache, misses |-> misses, hit |-> FALSE]
             ELSE [result |-> r, cache |-> DictPut(cache, key, r.value),
                   misses |-> misses + 1, hit |-> FALSE]

\* wrapper: after cached_func returns, a call that took less than 1 ms (fast)
\* counts as a hit.
MemoizeFunction(stage, cache, hits, misses, key, fast) ==
    LET r == CachedFunc(stage, cache, misses, key)
    IN  [result |-> r.result, cache |-> r.cache, misses |-> r.misses, hit |-> r.hit,
         hits |-> IF ~r.result.raised /\ fast THEN hits + 1 ELSE hits,
         lookup |-> TRUE]

\* Memoized*.convert
MemoizedConvert(stage, x, cache, hits, misses, fast) ==
    LET v == ValidateInput(x)
        r == MemoizeFunction(stage, cache, hits, misses, StageKey(stage, x), fast)
    IN  IF v.raised
        THEN [result |-> v, cache |-> cache, misses |-> misses, hit |-> FALSE, hits |-> hits,
              lookup |-> FALSE]
        ELSE [r EXCEPT !.result = Wrapped(x, r.result)]

\* A stage the pipeline does not reach, an earlier stage having raised e.
NotReached(stage, e) ==
    [result |-> e, cache |-> stage_cache[stage], misses |-> cache_misses[stage],
     hit |-> FALSE, hits |-> cache_hits[stage], lookup |-> FALSE]

StageStep(stage, before, fast) ==
    IF before.raised THEN NotReached(stage, before)
    ELSE MemoizedConvert(stage, before.value, stage_cache[stage], cache_hits[stage],
                         cache_misses[stage], fast)

\* OptimizedConversionPipeline.convert_intent_to_code
ConvertIntentToCode(intent, fast) ==
    LET s1 == StageStep("intent_to_param", Return(intent), fast)
        s2 == StageStep("param_to_structure", s1.result, fast)
        s3 == StageStep("structure_to_code", s2.result, fast)
        of == [s \in Stages |-> CASE s = "intent_to_param" -> s1
                                  [] s = "param_to_structure" -> s2
                                  [] s = "structure_to_code" -> s3]
    IN  /\ \A s \in Stages : cache_hits[s] < MaxHits
        /\ stage_cache' = [s \in Stages |-> of[s].cache]
        /\ cache_hits' = [s \in Stages |-> of[s].hits]
        /\ cache_misses' = [s \in Stages |-> of[s].misses]
        /\ prev_run' = last_run
        /\ last_run' = [intent |-> intent, result |-> s3.result,
                        hit |-> {s \in Stages : of[s].hit},
                        lookup |-> {s \in Stages : of[s].lookup},
                        hits_before |-> cache_hits, misses_before |-> cache_misses]
        /\ UNCHANGED <<last_convert, last_memo, acmVars, storeVars, pattern_cache, concVars>>

\* The inputs callers hand to the plain stages: what the stage before
\* produces, and representations built by hand.
ValidIntents == {i \in Intents : ~IsValid(i).raised}
ReverbParameters ==
    [level |-> "ParameterLevel",
     parameters |-> [effect_type |-> ParameterValue(Str("reverb")), mix |-> ParameterValue(Num(50)),
                     room |-> ParameterValue(Num(50))],
     source_intent |-> "APPLY_EFFECT"]
NoValueParameters ==
    [level |-> "ParameterLevel", parameters |-> [frequency |-> ParameterValue(None)],
     source_intent |-> "GENERATE_SOUND"]
ParameterInputs ==
    {IntentToParameterImpl(i).value : i \in ValidIntents}
        \cup {ReverbParameters, NoValueParameters}
EmptyStructure(structure_type) ==
    [level |-> "StructureLevel", structure_type |-> structure_type,
     components |-> EmptyDict, connections |-> {}, source_parameters |-> {},
     metadata |-> EmptyDict]
StructureInputs ==
    {ParameterToStructureImpl(x).value :
        x \in {y \in ParameterInputs : ~Convert("param_to_structure", y).raised}}
        \cup {EmptyStructure("SYNTH_DEF"), EmptyStructure("CUSTOM")}
StageInputs(stage) ==
    CASE stage = "intent_to_param" -> Intents
      [] stage = "param_to_structure" -> ParameterInputs
      [] stage = "structure_to_code" -> StructureInputs

\* A caller runs convert of a plain stage.
ConvertCall(stage, x) ==
    /\ last_convert' = [stage |-> stage, input |-> x, result |-> Convert(stage, x)]
    /\ UNCHANGED <<stage_cache, cache_hits, cache_misses, last_run, prev_run, last_memo,
                   acmVars, storeVars, pattern_cache, concVars>>

\* A caller runs convert of a memoized stage.
MemoizedConvertCall(stage, x, fast) ==
    LET r == MemoizedConvert(stage, x, stage_cache[stage], cache_hits[stage],
                             cache_misses[stage], fast)
    IN  /\ cache_hits[stage] < MaxHits
        /\ stage_cache' = [stage_cache EXCEPT ![stage] = r.cache]
        /\ cache_hits' = [cache_hits EXCEPT ![stage] = r.hits]
        /\ cache_misses' = [cache_misses EXCEPT ![stage] = r.misses]
        /\ last_memo' = [stage |-> stage, input |-> x, result |-> r.result, hit |-> r.hit]
        /\ UNCHANGED <<last_run, prev_run, last_convert, acmVars, storeVars,
                       pattern_cache, concVars>>

NoRun == [intent |-> None, result |-> Return(None), hit |-> {}, lookup |-> {},
          hits_before |-> [s \in Stages |-> 0], misses_before |-> [s \in Stages |-> 0]]
NoConvert == [stage |-> NoName, input |-> None, result |-> Return(None)]
NoMemo == [stage |-> NoName, input |-> None, result |-> Return(None), hit |-> FALSE]

InitPipeline ==
    /\ stage_cache = [s \in Stages |-> EmptyDict]
    /\ cache_hits = [s \in Stages |-> 0]
    /\ cache_misses = [s \in Stages |-> 0]
    /\ last_run = NoRun
    /\ prev_run = NoRun
    /\ last_convert = NoConvert
    /\ last_memo = NoMemo

-----------------------------------------------------------------------------
(* AdaptiveCacheManager *)

\* register_cache_clear_callback: append unless already present.
RegisterResult(cbs, cb) == IF cb \in Range(cbs) THEN cbs ELSE Append(cbs, cb)

\* unregister_cache_clear_callback: list.remove of the first occurrence.
UnregisterResult(cbs, cb) == IF cb \in Range(cbs) THEN RemoveFirst(cbs, cb) ELSE cbs

\* The effect of running one callback on the getById cache.  Only the pattern
\* manager's callback touches it (PatternManager._clear_caches).
CallbackEffect(cb, cache) == IF cb = PatternCallback THEN EmptyCache ELSE cache

\* _clear_all_caches: with no callback registered it returns before counting;
\* otherwise it calls every callback of the list, in order, swallowing what a
\* callback raises, and counts one clear.
RECURSIVE RunCallbacks(_, _, _)
RunCallbacks(cbs, cache, invoked) ==
    IF cbs = << >> THEN [cache |-> cache, invoked |-> invoked]
    ELSE RunCallbacks(Tail(cbs), CallbackEffect(Head(cbs), cache),
                      [invoked EXCEPT ![Head(cbs)] = @ + 1])

ClearAllCaches(cbs, cache) ==
    IF cbs = << >>
    THEN [cache |-> cache, invoked |-> NoInvocation, clears |-> 0]
    ELSE LET r == RunCallbacks(cbs, cache, NoInvocation)
         IN  [cache |-> r.cache, invoked |-> r.invoked, clears |-> 1]

\* AdaptiveCacheManager.__init__: the stats dictionary.
InitialStats == [total_checks |-> 0, high_memory_events |-> 0,
                 critical_memory_events |-> 0, cache_clears |-> 0,
                 last_memory_usage |-> 0, peak_memory_usage |-> 0]

\* The branch check_memory_usage takes for a measured usage.
IsCriticalStrict(u) == u > CriticalMemoryThreshold
IsCritical(u) == u >= CriticalMemoryThreshold
IsHighStrict(u) == u > HighMemoryThreshold
IsHigh(u) == u >= HighMemoryThreshold

Max2(a, b) == IF a > b THEN a ELSE b

\* The monitor fields of the manager.
Monitor == [monitor_thread |-> monitor_thread, alive_threads |-> alive_threads,
            stop_monitoring |-> stop_monitoring, threads_started |-> threads_started]

\* self.monitor_thread and self.monitor_thread.is_alive()
NeverRunning(m) == FALSE
MonitorRunning(m) == m.monitor_thread # 0 /\ m.monitor_thread \in m.alive_threads

\* start_monitoring: returns when the monitor thread is alive; otherwise clears
\* the event and starts a new thread, which becomes self.monitor_thread.
StartMonitoringResult(m) ==
    IF MonitorRunning(m) THEN m
    ELSE [monitor_thread |-> m.threads_started + 1,
          alive_threads |-> m.alive_threads \cup {m.threads_started + 1},
          stop_monitoring |-> FALSE,
          threads_started |-> m.threads_started + 1]

\* stop_monitor: returns when no monitor thread is alive; otherwise sets the
\* event and joins the thread for at most 2 seconds.  A thread that sees the
\* event in that time has ended when stop_monitor returns (joined); one that
\* sleeps through it is still alive.
StopMonitorResult(m, joined) ==
    IF ~MonitorRunning(m) THEN m
    ELSE [m EXCEPT !.stop_monitoring = TRUE,
                   !.alive_threads = IF joined THEN @ \ {m.monitor_thread} ELSE @]

SetMonitor(m) ==
    /\ monitor_thread' = m.monitor_thread
    /\ alive_threads' = m.alive_threads
    /\ stop_monitoring' = m.stop_monitoring
    /\ threads_started' = m.threads_started

RegisterCallback(cb) ==
    /\ cache_clear_callbacks' = RegisterResult(cache_clear_callbacks, cb)
    /\ UNCHANGED <<stats, current_memory_usage, last_check_time, now, pm_constructed,
                   pipeline_constructed, last_check, elevated, pattern_cache, storeVars, concVars, pipeVars, monVars>>

UnregisterCallback(cb) ==
    /\ cb \in Range(cache_clear_callbacks)
    /\ cache_clear_callbacks' = UnregisterResult(cache_clear_callbacks, cb)
    /\ UNCHANGED <<stats, current_memory_usage, last_check_time, now, pm_constructed,
                   pipeline_constructed, last_check, elevated, pattern_cache, storeVars, concVars, pipeVars, monVars>>

\* PatternManager.__init__: registers its clear callback with the manager and
\* starts the monitor.
ConstructPatternManager ==
    /\ ~pm_constructed
    /\ pm_constructed' = TRUE
    /\ cache_clear_callbacks' = RegisterResult(cache_clear_callbacks, PatternCallback)
    /\ SetMonitor(StartMonitoringResult(Monitor))
    /\ UNCHANGED <<stats, current_memory_usage, last_check_time, now,
                   pipeline_constructed, last_check, elevated, pattern_cache, storeVars,
                   concVars, pipeVars, last_mon>>

\* OptimizedConversionPipeline.__init__ -> three MemoizedConverter.__init__:
\* they set cache_size, cache_stats and the counters, and register nothing.
ConstructPipeline ==
    /\ ~pipeline_constructed
    /\ pipeline_constructed' = TRUE
    /\ UNCHANGED <<cache_clear_callbacks, stats, current_memory_usage, last_check_time,
                   now, pm_constructed, last_check, elevated, pattern_cache, storeVars, concVars, pipeVars, monVars>>

\* A request-path get_pattern that misses: lru_cache keeps the result.
RequestGetPattern(id) ==
    /\ pm_constructed
    /\ id \notin DOMAIN pattern_cache
    /\ LET r == GetPattern(rows, pattern_cache, id, clock, "none")
       IN  rows' = r.table /\ pattern_cache' = r.cache
    /\ UNCHANGED <<acmVars, clock, last_op, repeated, concVars, pipeVars>>

\* time passes
Tick(d) ==
    /\ now + d <= MaxNow
    /\ now' = now + d
    /\ UNCHANGED <<cache_clear_callbacks, stats, current_memory_usage, last_check_time,
                   pm_constructed, pipeline_constructed, last_check, elevated,
                   pattern_cache, storeVars, concVars, pipeVars, monVars>>

\* check_memory_usage with measured usage u (psutil's reading is the input).
CheckMemoryUsage(u) ==
    IF now - last_check_time < MinCheckSeconds
    THEN \* throttled: returns the stored usage and measures nothing
         /\ last_check' = [effective |-> FALSE, usage |-> current_memory_usage,
                           invoked |-> NoInvocation,
                           registered |-> Range(cache_clear_callbacks),
                           before |-> stats]
         /\ UNCHANGED <<cache_clear_callbacks, stats, current_memory_usage,
                        last_check_time, now, pm_constructed, pipeline_constructed,
                        elevated, pattern_cache, storeVars, concVars, pipeVars, monVars>>
    ELSE /\ stats.total_checks < MaxChecks
         /\ LET evict == IsCritical(u) \/ IsHigh(u)
                r == IF evict THEN ClearAllCaches(cache_clear_callbacks, pattern_cache)
                     ELSE [cache |-> pattern_cache, invoked |-> NoInvocation,
                           clears |-> 0]
                dc == IF IsCritical(u) THEN 1 ELSE 0
                dh == IF ~IsCritical(u) /\ IsHigh(u) THEN 1 ELSE 0
            IN  /\ last_check_time' = now
                /\ current_memory_usage' = u
                /\ stats' = [total_checks |-> stats.total_checks + 1,
                             high_memory_events |-> stats.high_memory_events + dh,
                             critical_memory_events |-> stats.critical_memory_events + dc,
                             cache_clears |-> stats.cache_clears + r.clears,
                             last_memory_usage |-> u,
                             peak_memory_usage |-> Max2(u, stats.peak_memory_usage)]
                /\ pattern_cache' = r.cache
                /\ last_check' = [effective |-> TRUE, usage |-> u,
                                  invoked |-> r.invoked,
                                  registered |-> Range(cache_clear_callbacks),
                                  before |-> stats]
                /\ elevated' = IF r.clears = 1 THEN TRUE
                               ELSE IF u < LowMemoryThreshold THEN FALSE
                               ELSE elevated
         /\ UNCHANGED <<cache_clear_callbacks, now, pm_constructed, pipeline_constructed,
                        storeVars, concVars, pipeVars, monVars>>

NoMonitor == [monitor_thread |-> 0, alive_threads |-> {}, stop_monitoring |-> FALSE,
              threads_started |-> 0]

NoMonitorCall == [op |-> NoName, was_running |-> FALSE, before |-> NoMonitor,
                  after |-> NoMonitor]

monitorFrame == <<cache_clear_callbacks, stats, current_memory_usage, last_check_time,
                  now, pm_constructed, pipeline_constructed, last_check, elevated,
                  pattern_cache, storeVars, concVars, pipeVars>>

\* A caller runs start_monitoring.
StartMonitoring ==
    LET m == StartMonitoringResult(Monitor)
    IN  /\ m.threads_started <= MaxThreads
        /\ SetMonitor(m)
        /\ last_mon' = [op |-> "start_monitoring", was_running |-> MonitorRunning(Monitor),
                        before |-> Monitor, after |-> m]
        /\ UNCHANGED monitorFrame

\* A caller runs stop_monitor.
StopMonitor(joined) ==
    LET m == StopMonitorResult(Monitor, joined)
    IN  /\ SetMonitor(m)
        /\ last_mon' = [op |-> "stop_monitor", was_running |-> MonitorRunning(Monitor),
                        before |-> Monitor, after |-> m]
        /\ UNCHANGED monitorFrame

\* _monitor_memory_usage, the loop test: a thread that finds the event set ends.
MonitorLoopExit(t) ==
    /\ t \in alive_threads
    /\ stop_monitoring
    /\ alive_threads' = alive_threads \ {t}
    /\ UNCHANGED <<monitor_thread, stop_monitoring, threads_started, last_mon, monitorFrame>>

\* _monitor_memory_usage, the loop body: check_memory_usage, then sleep.
MonitorLoopCheck(t, u) ==
    /\ t \in alive_threads
    /\ ~stop_monitoring
    /\ CheckMemoryUsage(u)

SetMonitorInit(m) ==
    /\ monitor_thread = m.monitor_thread
    /\ alive_threads = m.alive_threads
    /\ stop_monitoring = m.stop_monitoring
    /\ threads_started = m.threads_started

\* AdaptiveCacheManager.__init__
InitManager ==
    /\ cache_clear_callbacks = << >>
    /\ stats = InitialStats
    /\ current_memory_usage = 0
    /\ last_check_time = 0
    /\ now = ClockStart
    /\ pm_constructed = FALSE
    /\ pipeline_constructed = FALSE
    /\ last_check = [effective |-> FALSE, usage |-> 0, invoked |-> NoInvocation,
                     registered |-> {}, before |-> InitialStats]
    /\ elevated = FALSE
    /\ SetMonitorInit(NoMonitor)
    /\ last_mon = NoMonitorCall

\* The manager once the module-level PatternManager exists: its callback is
\* registered and the monitor runs (precompiled_patterns.py, pattern_manager =
\* get_pattern_manager()).
InitManagerWithStore ==
    /\ cache_clear_callbacks = <<PatternCallback>>
    /\ stats = InitialStats
    /\ current_memory_usage = 0
    /\ last_check_time = 0
    /\ now = ClockStart
    /\ pm_constructed = TRUE
    /\ pipeline_constructed = FALSE
    /\ last_check = [effective |-> FALSE, usage |-> 0, invoked |-> NoInvocation,
                     registered |-> {}, before |-> InitialStats]
    /\ elevated = FALSE
    /\ SetMonitorInit(StartMonitoringResult(NoMonitor))
    /\ last_mon = NoMonitorCall

-----------------------------------------------------------------------------
(* find_patterns_by_type *)

\* The cap of the SELECT of find_patterns_by_type (LIMIT 100).
QueryLimit == 100

\* ORDER BY last_used_at IS NULL, last_used_at DESC LIMIT n: the n most
\* recently used rows of S, most recent first (the order among rows of equal
\* time is SQLite's choice and is fixed here).
RECURSIVE MostRecentFirst(_, _)
MostRecentFirst(S, n) ==
    IF S = {} \/ n = 0 THEN << >>
    ELSE LET r == CHOOSE x \in S : \A y \in S : x.last_used_at >= y.last_used_at
         IN  <<r>> \o MostRecentFirst(S \ {r}, n - 1)

\* find_patterns_by_type: one SELECT of the rows of the type, one pattern
\* built per row, and one UPDATE of last_used_at for the ids read when there
\* are any; an exception returns the empty list.
FindPatternsByType(table, pattern_type, t, fault) ==
    IF fault # "none"
    THEN [result |-> << >>, table |-> table, reads |-> 1, writes |-> 0]
    ELSE LET selected == MostRecentFirst({r \in table : r.pattern_type = pattern_type},
                                         QueryLimit)
             pattern_ids == {selected[i].pattern_id : i \in 1..Len(selected)}
         IN  [result |-> [i \in 1..Len(selected) |-> PatternOfRow(selected[i])],
              table |-> {IF r.pattern_id \in pattern_ids
                         THEN [r EXCEPT !.last_used_at = t] ELSE r : r \in table},
              reads |-> 1,
              writes |-> IF pattern_ids = {} THEN 0 ELSE 1]

NoFind == [pattern_type |-> NoName, fault |-> "none", result |-> << >>,
           before |-> {}, reads |-> 0, writes |-> 0]

-----------------------------------------------------------------------------
(* Worker threads: each obtains the PatternManager, compiles and saves its *)
(* own pattern and reads it back; the main thread then lists a type.        *)

Workers == {"w1", "w2"}

\* What the workers save: each its own name and its own content.
WorkerArgs == {f \in [Workers -> CompileArgs] :
                  \A v, w \in Workers :
                      v # w => /\ f[v].name # f[w].name
                               /\ f[v].content # f[w].content}

WorkerStart(a) == [pc |-> "get_manager", args |-> a, existing |-> FALSE,
                   pending |-> {}, row |-> None, result |-> None,
                   saved |-> "none", got |-> None]

WorkerOff == [pc |-> "off", args |-> None, existing |-> FALSE, pending |-> {},
              row |-> None, result |-> None, saved |-> "none", got |-> None]

WorkerPattern(w) == CompilePattern(workers[w].args, clock)

\* An open save_pattern transaction of a worker holds SQLite's write lock.
NoWriteLock == FALSE
WorkerWriteLocked == \E w \in Workers : workers[w].pc \in {"save_cache_clear", "save_commit"}

outsideWorkers == <<stats, current_memory_usage, last_check_time, now,
                    pipeline_constructed, last_check, elevated, clock, last_op,
                    repeated, readers, writer, last_get, pipeVars, catVars, irVars,
                    evictVars, sweepVars, last_mon>>

monitorFields == <<monitor_thread, alive_threads, stop_monitoring, threads_started>>

\* get_pattern_manager, the unlocked test: an instance that exists is returned.
GetManagerCheck(w) ==
    /\ workers[w].pc = "get_manager"
    /\ workers' = [workers EXCEPT ![w].pc = IF pm_constructed THEN "save_select"
                                            ELSE "singleton_lock"]
    /\ UNCHANGED <<rows, pattern_cache, constructions, found, pm_constructed,
                   cache_clear_callbacks, outsideWorkers, monitorFields>>

\* get_pattern_manager under _singleton_lock: the second test, and the
\* construction (PatternManager.__init__ registers the clear callback and
\* starts the monitor) when the instance is still missing.
GetManagerLocked(w) ==
    /\ workers[w].pc = "singleton_lock"
    /\ workers' = [workers EXCEPT ![w].pc = "save_select"]
    /\ IF pm_constructed
       THEN UNCHANGED <<pm_constructed, cache_clear_callbacks, constructions, monitorFields>>
       ELSE /\ pm_constructed' = TRUE
            /\ cache_clear_callbacks' = RegisterResult(cache_clear_callbacks, PatternCallback)
            /\ SetMonitor(StartMonitoringResult(Monitor))
            /\ constructions' = constructions + 1
    /\ UNCHANGED <<rows, pattern_cache, found, outsideWorkers>>

\* compile_pattern, then save_pattern: the transaction's connection is opened
\* and the row of the pattern's id is looked up.
WorkerSaveSelect(w) ==
    /\ workers[w].pc = "save_select"
    /\ workers' = [workers EXCEPT ![w].pc = "save_execute",
                       ![w].existing = (\E r \in rows : r.pattern_id = IdOf(WorkerPattern(w)))]
    /\ UNCHANGED <<rows, pattern_cache, constructions, found, pm_constructed,
                   cache_clear_callbacks, outsideWorkers, monitorFields>>

\* save_pattern, the UPDATE or INSERT: it waits for the write lock; a refused
\* statement raises DatabaseError and the transaction rolls back.
WorkerSaveExecute(w) ==
    /\ workers[w].pc = "save_execute"
    /\ ~WorkerWriteLocked
    /\ LET p == WorkerPattern(w)
           exec == IF workers[w].existing THEN DbUpdate(rows, p, clock)
                   ELSE DbInsert(rows, NewRow(p, clock))
       IN  workers' = [workers EXCEPT ![w] =
               IF exec.ok THEN [@ EXCEPT !.pc = "save_cache_clear", !.pending = exec.table]
               ELSE [@ EXCEPT !.pc = "get_start", !.saved = "DatabaseError"]]
    /\ UNCHANGED <<rows, pattern_cache, constructions, found, pm_constructed,
                   cache_clear_callbacks, outsideWorkers, monitorFields>>

\* save_pattern, the end of the body: get_pattern.cache_clear().
WorkerSaveCacheClear(w) ==
    /\ workers[w].pc = "save_cache_clear"
    /\ pattern_cache' = EmptyCache
    /\ workers' = [workers EXCEPT ![w].pc = "save_commit"]
    /\ UNCHANGED <<rows, constructions, found, pm_constructed, cache_clear_callbacks,
                   outsideWorkers, monitorFields>>

\* transaction(), after the body: conn.commit(); save_pattern returns True.
WorkerSaveCommit(w) ==
    /\ workers[w].pc = "save_commit"
    /\ rows' = workers[w].pending
    /\ workers' = [workers EXCEPT ![w].pc = "get_start", ![w].saved = "True",
                                  ![w].pending = {}]
    /\ UNCHANGED <<pattern_cache, constructions, found, pm_constructed,
                   cache_clear_callbacks, outsideWorkers, monitorFields>>

\* get_pattern(pattern.pattern_id), entry: lru_cache looks the key up.
WorkerGetStart(w) ==
    /\ workers[w].pc = "get_start"
    /\ LET id == IdOf(WorkerPattern(w))
       IN  workers' = [workers EXCEPT ![w] =
               IF id \in DOMAIN pattern_cache
               THEN [@ EXCEPT !.pc = "done", !.got = pattern_cache[id]]
               ELSE [@ EXCEPT !.pc = "get_select"]]
    /\ UNCHANGED <<rows, pattern_cache, constructions, found, pm_constructed,
                   cache_clear_callbacks, outsideWorkers, monitorFields>>

\* get_pattern, SELECT: reads the committed row; no row returns None.
WorkerGetSelect(w) ==
    /\ workers[w].pc = "get_select"
    /\ LET hit == {x \in rows : x.pattern_id = IdOf(WorkerPattern(w))}
       IN  workers' = [workers EXCEPT ![w] =
               IF hit = {} THEN [@ EXCEPT !.pc = "get_store", !.result = None]
               ELSE [@ EXCEPT !.pc = "get_update", !.row = CHOOSE x \in hit : TRUE]]
    /\ UNCHANGED <<rows, pattern_cache, constructions, found, pm_constructed,
                   cache_clear_callbacks, outsideWorkers, monitorFields>>

\* get_pattern, UPDATE last_used_at and commit (waits for the write lock), then
\* builds the pattern from the row it selected.
WorkerGetUpdate(w) ==
    /\ workers[w].pc = "get_update"
    /\ ~WorkerWriteLocked
    /\ rows' = {IF x.pattern_id = IdOf(WorkerPattern(w))
                THEN [x EXCEPT !.last_used_at = clock] ELSE x : x \in rows}
    /\ workers' = [workers EXCEPT ![w].pc = "get_store",
                                  ![w].result = PatternOfRow(workers[w].row)]
    /\ UNCHANGED <<pattern_cache, constructions, found, pm_constructed,
                   cache_clear_callbacks, outsideWorkers, monitorFields>>

\* get_pattern, return: lru_cache stores what the body returned under the key.
WorkerGetStore(w) ==
    /\ workers[w].pc = "get_store"
    /\ pattern_cache' = CachePut(pattern_cache, IdOf(WorkerPattern(w)), workers[w].result)
    /\ workers' = [workers EXCEPT ![w].pc = "done", ![w].got = workers[w].result]
    /\ UNCHANGED <<rows, constructions, found, pm_constructed, cache_clear_callbacks,
                   outsideWorkers, monitorFields>>

AllWorkersDone == \A w \in Workers : workers[w].pc = "done"

\* The main thread, once the pool has joined: find_patterns_by_type.
FindAfterWorkers(pattern_type) ==
    /\ AllWorkersDone
    /\ LET r == FindPatternsByType(rows, pattern_type, clock, "none")
       IN  /\ rows' = r.table
           /\ found' = [pattern_type |-> pattern_type, fault |-> "none",
                        result |-> r.result, before |-> rows,
                        reads |-> r.reads, writes |-> r.writes]
    /\ UNCHANGED <<pattern_cache, workers, constructions, pm_constructed,
                   cache_clear_callbacks, outsideWorkers, monitorFields>>

\* The main thread lists a type.
FindByTypeCall(pattern_type, fault) ==
    LET r == FindPatternsByType(rows, pattern_type, clock, fault)
    IN  /\ rows' = r.table
        /\ found' = [pattern_type |-> pattern_type, fault |-> fault,
                     result |-> r.result, before |-> rows,
                     reads |-> r.reads, writes |-> r.writes]
        /\ UNCHANGED <<pattern_cache, workers, constructions, pm_constructed,
                       cache_clear_callbacks, outsideWorkers, monitorFields>>

\* Patterns saved one after another with numbered names and sources, as the
\* tests save them: the i-th was last used at time i % 2.
NumberedRow(i) ==
    [name |-> <<"test_pattern", i>>, pattern_type |-> "effect",
     pattern_id |-> CalculatePatternId("effect", <<"// Test Source Code", i>>),
     source_code |-> <<"// Test Source Code", i>>,
     compiled_code |-> <<"// Test Source Code", i>>,
     metadata |-> "m1", compilation_time |-> 0, created_at |-> 0,
     last_used_at |-> i % 2]

NumberedRows(n) == {NumberedRow(i) : i \in 1..n}

\* PatternManager.__init__(cache_size=100): the size the module's manager is
\* given.  The value is kept in self.cache_size and read nowhere.
CacheSize == 100

\* ALL_PATTERNS: the keys in the order of the merged dictionaries, and the type
\* of each entry.  An entry's name and source stand for themselves: the name
\* is written as the key, the source as the key between the line breaks the
\* catalog's sources begin and end with.
CatalogKeys == <<"sine", "saw", "square", "triangle", "reverb", "delay",
                 "basic_sequence", "random_sequence", "rain", "wind">>
CatalogType(k) ==
    IF k \in {"reverb", "delay"} THEN "effect"
    ELSE IF k \in {"basic_sequence", "random_sequence"} THEN "pattern"
    ELSE "synth_def"

\* compile_pattern on a catalog entry: the pass strips the source.
CompileCatalogEntry(k, t) ==
    [name |-> k, pattern_type |-> CatalogType(k), source_code |-> <<"\n", k, "\n">>,
     compiled_code |-> <<k>>, metadata |-> "m1", compilation_time |-> t]

\* The rows an earlier run left for a set of catalog keys.
CatalogRows(ks) == {NewRow(CompileCatalogEntry(k, 0), 0) : k \in ks}

\* find_pattern_by_name(name, pattern_type): the id of the most recently used
\* row of that name and type, then get_pattern(id); writes counts the UPDATE
\* get_pattern makes when it reads the row.
FindsNoPattern(table, cache, name, pattern_type, t) ==
    [result |-> None, table |-> table, cache |-> cache, writes |-> 0]
FindPatternByName(table, cache, name, pattern_type, t) ==
    LET hit == {r \in table : r.name = name /\ r.pattern_type = pattern_type}
    IN  IF hit = {} THEN [result |-> None, table |-> table, cache |-> cache, writes |-> 0]
        ELSE LET id == MostRecentFirst(hit, 1)[1].pattern_id
                 g == GetPattern(table, cache, id, t, "none")
             IN  [result |-> g.result, table |-> g.table, cache |-> g.cache,
                  writes |-> IF id \in DOMAIN cache THEN 0 ELSE 1]

\* One turn of the loop of initialize, on entry k: an entry found by name is
\* "existing"; otherwise compile_and_save, "compiled", or "failed" when it
\* raises.  fault is what the database does to the save of this entry.
InitializeEntry(acc, k, force_recompile, t, fault) ==
    LET f == IF force_recompile
             THEN [result |-> None, table |-> acc.table, cache |-> acc.cache, writes |-> 0]
             ELSE FindPatternByName(acc.table, acc.cache, k, CatalogType(k), t)
        sv == SavePattern(f.table, CompileCatalogEntry(k, t), t, fault)
    IN  IF f.result # None
        THEN [table |-> f.table, cache |-> f.cache,
              status |-> DictPut(acc.status, k, "existing"),
              compiled |-> acc.compiled, writes |-> acc.writes + f.writes,
              pattern_count |-> acc.pattern_count + 1]
        ELSE IF sv.result = "True"
        THEN [table |-> sv.table, cache |-> EmptyCache,
              status |-> DictPut(acc.status, k, "compiled"),
              compiled |-> acc.compiled \cup {k}, writes |-> acc.writes + f.writes + 1,
              pattern_count |-> acc.pattern_count + 1]
        ELSE [table |-> f.table, cache |-> IF sv.cleared THEN EmptyCache ELSE f.cache,
              status |-> DictPut(acc.status, k, "failed"),
              compiled |-> acc.compiled \cup {k}, writes |-> acc.writes + f.writes,
              pattern_count |-> acc.pattern_count]

RECURSIVE InitializeLoop(_, _, _, _, _)
InitializeLoop(acc, ks, force_recompile, t, faults) ==
    IF ks = << >> THEN acc
    ELSE InitializeLoop(InitializeEntry(acc, Head(ks), force_recompile, t, faults[Head(ks)]),
                        Tail(ks), force_recompile, t, faults)

\* PatternCatalog.initialize
Initialize(cat, table, cache, force_recompile, t, faults) ==
    IF cat.initialized /\ ~force_recompile
    THEN [table |-> table, cache |-> cache, status |-> EmptyDict, compiled |-> {},
          writes |-> 0, pattern_count |-> cat.pattern_count,
          returned |-> "already_initialized"]
    ELSE LET r == InitializeLoop([table |-> table, cache |-> cache, status |-> EmptyDict,
                                  compiled |-> {}, writes |-> 0, pattern_count |-> 0],
                                 CatalogKeys, force_recompile, t, faults)
         IN  [table |-> r.table, cache |-> r.cache, status |-> r.status,
              compiled |-> r.compiled, writes |-> r.writes,
              pattern_count |-> r.pattern_count, returned |-> "results"]

\* PatternCatalog.__init__
NewCatalog == [initialized |-> FALSE, pattern_count |-> 0]

NoInit == [called |-> FALSE, force_recompile |-> FALSE, returned |-> NoName,
           status |-> EmptyDict, compiled |-> {}, writes |-> 0, before |-> {},
           after |-> {}]

outsideCatalog == <<acmVars, clock, last_op, repeated, readers, writer, last_get,
                    workVars, irVars, evictVars, sweepVars, pipeVars>>

\* The database serving every save.
NoFaults == [k \in Range(CatalogKeys) |-> "none"]

\* A caller runs initialize on the catalog; faults gives, per entry, what the
\* database does to the save of that entry during this call.
InitializeCall(force_recompile, faults) ==
    LET r == Initialize(catalog, rows, pattern_cache, force_recompile, clock, faults)
    IN  /\ rows' = r.table
        /\ pattern_cache' = r.cache
        /\ catalog' = [initialized |-> TRUE, pattern_count |-> r.pattern_count]
        /\ compile_count' = [k \in Range(CatalogKeys) |->
                                compile_count[k] + IF k \in r.compiled THEN 1 ELSE 0]
        /\ last_init' = [called |-> TRUE, force_recompile |-> force_recompile,
                         returned |-> r.returned, status |-> r.status,
                         compiled |-> r.compiled, writes |-> r.writes,
                         before |-> rows, after |-> r.table]
        /\ UNCHANGED outsideCatalog

\* The program starts again, or builds another PatternCatalog: a catalog that
\* is not initialized, over the same durable table and a cold cache.
ConstructCatalog ==
    /\ catalog.initialized
    /\ catalog' = NewCatalog
    /\ pattern_cache' = EmptyCache
    /\ UNCHANGED <<rows, compile_count, last_init, outsideCatalog>>

-----------------------------------------------------------------------------
(* The representation levels as objects with every field, and their        *)
(* to_dict / from_dict (representation/*.py).  An Optional[str] field is    *)
(* None or Str(text); a dict is a function on the keys it holds.            *)

\* data.get(key, default)
Get(data, key, default) == IF key \in DOMAIN data THEN data[key] ELSE default

\* A member of an Enum class; member.name; cls[name], KeyError caught by the
\* from_dict methods, which then take cls.UNKNOWN.
EnumMember(cls, name) == [enum |-> cls, name |-> name]
EnumByName(cls, names, name) ==
    IF name \in names THEN EnumMember(cls, name) ELSE EnumMember(cls, "UNKNOWN")

IntentTypeNames == IntentTypes \cup {"UNKNOWN"}
CodeTypeNames == {"SYNTH", "EFFECT", "UNKNOWN"}

\* The metadata dictionaries and the optional strings callers pass.
Metadatas == {EmptyDict, [source |-> Str("user")]}
OptionalStr(texts) == {None} \cup {Str(t) : t \in texts \cup {""}}

\* if value: on an Optional[str]
Truthy(value) == value # None /\ value # Str("")

\* ParameterValue.__init__ with every argument
ParameterValueObjects ==
    [value_type : {"static", "range"},
     value : {None, Num(440)},
     unit : OptionalStr({"Hz"}),
     min_value : {None, Num(0), Num(900)},
     max_value : {None, Num(0), Num(880)},
     metadata : Metadatas]

\* ParameterValue.validate returns True
ParameterValueValidates(v) ==
    /\ v.value_type # ""
    /\ v.value # None
    /\ v.value_type = "range" =>
           /\ v.min_value # None /\ v.max_value # None
           /\ ~(v.min_value.num > v.max_value.num)

\* ParameterValue.to_dict
ParameterValueToDict(v) ==
    LET d0 == [value_type |-> v.value_type, value |-> v.value]
        d1 == IF Truthy(v.unit) THEN DictPut(d0, "unit", v.unit) ELSE d0
        d2 == IF v.min_value # None THEN DictPut(d1, "min_value", v.min_value) ELSE d1
        d3 == IF v.max_value # None THEN DictPut(d2, "max_value", v.max_value) ELSE d2
    IN  IF DOMAIN v.metadata # {} THEN DictPut(d3, "metadata", v.metadata) ELSE d3

\* ParameterValue.from_dict
ParameterValueFromDict(data) ==
    [value_type |-> Get(data, "value_type", "static"),
     value |-> Get(data, "value", None),
     unit |-> Get(data, "unit", None),
     min_value |-> Get(data, "min_value", None),
     max_value |-> Get(data, "max_value", None),
     metadata |-> Get(data, "metadata", EmptyDict)]

\* StructureComponent.__init__, to_dict and from_dict
StructureComponentObjects(name) ==
    [component_type : {"oscillator"}, name : {name},
     value : {None, Num(440), Str("sine")}, metadata : Metadatas]

StructureComponentToDict(c) ==
    LET d0 == [component_type |-> c.component_type, name |-> c.name, value |-> c.value]
    IN  IF DOMAIN c.metadata # {} THEN DictPut(d0, "metadata", c.metadata) ELSE d0

StructureComponentFromDict(data) ==
    [component_type |-> Get(data, "component_type", "unknown"),
     name |-> Get(data, "name", ""),
     value |-> Get(data, "value", None),
     metadata |-> Get(data, "metadata", EmptyDict)]

\* CodeVariable.__init__, to_dict and from_dict
CodeVariableObjects(name) ==
    [name : {name}, value : {Num(440)}, var_type : OptionalStr({"freq"}),
     is_literal : BOOLEAN, metadata : Metadatas]

CodeVariableToDict(v) ==
    LET d0 == [name |-> v.name, value |-> v.value, is_literal |-> v.is_literal]
        d1 == IF Truthy(v.var_type) THEN DictPut(d0, "var_type", v.var_type) ELSE d0
    IN  IF DOMAIN v.metadata # {} THEN DictPut(d1, "metadata", v.metadata) ELSE d1

CodeVariableFromDict(data) ==
    [name |-> Get(data, "name", ""),
     value |-> Get(data, "value", None),
     var_type |-> Get(data, "var_type", None),
     is_literal |-> Get(data, "is_literal", FALSE),
     metadata |-> Get(data, "metadata", EmptyDict)]

\* The dictionaries from some of the names to the objects of a class.
DictsOver(names, Objects(_)) ==
    UNION {{d \in [S -> UNION {Objects(n) : n \in S}] : \A n \in S : d[n] \in Objects(n)}
           : S \in SUBSET names}

\* The objects callers build at each level: IntentLevel.__init__,
\* ParameterLevel.__init__, StructureLevel.__init__, CodeLevel.__init__.
IntentObjects ==
    [level : {"IntentLevel"},
     intent_type : {EnumMember("IntentType", n) : n \in IntentTypeNames},
     description : Descriptions,
     metadata : Metadatas,
     confidence : {0, 100, 150}]

ParameterObjects ==
    [level : {"ParameterLevel"},
     parameters : {EmptyDict} \cup {[frequency |-> v] : v \in ParameterValueObjects},
     source_intent : OptionalStr({"GENERATE_SOUND"})]

StructureObjects ==
    [level : {"StructureLevel"},
     structure_type : {EnumMember("StructureType", n) : n \in {"SYNTH_DEF", "CUSTOM"}},
     components : DictsOver({"osc", "out"}, StructureComponentObjects),
     connections : {<< >>, << <<"osc", "out">> >>},
     source_parameters : {<< >>, <<"frequency">>},
     metadata : Metadatas]

CodeObjects ==
    [level : {"CodeLevel"},
     code_type : {EnumMember("CodeType", n) : n \in CodeTypeNames},
     template : {"", "{freq}", "SinOsc.ar(440)"},
     variables : DictsOver({"freq"}, CodeVariableObjects),
     source_structure : OptionalStr({"SYNTH_DEF"}),
     metadata : Metadatas]

\* re.findall(r'\{(\w+)\}', template), on the templates of the model
Placeholders(template) == IF template = "{freq}" THEN {"freq"} ELSE {}

\* validate() of the object's class returns True
Validates(x) ==
    CASE x.level = "IntentLevel" ->
             /\ x.intent_type.enum = "IntentType"
             /\ x.description # ""
             /\ 0 <= x.confidence /\ x.confidence <= 100
      [] x.level = "ParameterLevel" ->
             /\ DOMAIN x.parameters # {}
             /\ \A n \in DOMAIN x.parameters : ParameterValueValidates(x.parameters[n])
      [] x.level = "StructureLevel" ->
             /\ x.structure_type.enum = "StructureType"
             /\ DOMAIN x.components # {} \/ x.structure_type.name \in {"CUSTOM", "UNKNOWN"}
             /\ \A n \in DOMAIN x.components :
                    /\ x.components[n].component_type # ""
                    /\ x.components[n].name # ""
                    /\ x.components[n].value # None
             /\ \A i \in DOMAIN x.connections :
                    /\ x.connections[i][1] \in DOMAIN x.components
                    /\ x.connections[i][2] \in DOMAIN x.components
      [] x.level = "CodeLevel" ->
             /\ x.code_type.enum = "CodeType"
             /\ x.template # ""
             /\ Placeholders(x.template) \subseteq DOMAIN x.variables

ValidObjects ==
    {x \in IntentObjects \cup ParameterObjects \cup StructureObjects \cup CodeObjects :
        Validates(x)}

\* IntentLevel.to_dict and from_dict
IntentLevelToDict(x) ==
    [intent_type |-> x.intent_type.name, description |-> x.description,
     metadata |-> x.metadata, confidence |-> x.confidence]

IntentLevelFromDict(data) ==
    [level |-> "IntentLevel",
     intent_type |-> EnumByName("IntentType", IntentTypeNames,
                                Get(data, "intent_type", "UNKNOWN")),
     description |-> Get(data, "description", ""),
     metadata |-> Get(data, "metadata", EmptyDict),
     confidence |-> Get(data, "confidence", 100)]

\* ParameterLevel.to_dict and from_dict
ParameterLevelToDict(x) ==
    LET d0 == [parameters |-> [n \in DOMAIN x.parameters |->
                                  ParameterValueToDict(x.parameters[n])]]
    IN  IF Truthy(x.source_intent) THEN DictPut(d0, "source_intent", x.source_intent) ELSE d0

ParameterLevelFromDict(data) ==
    LET parameters_data == Get(data, "parameters", EmptyDict)
    IN  [level |-> "ParameterLevel",
         parameters |-> [n \in DOMAIN parameters_data |->
                            ParameterValueFromDict(parameters_data[n])],
         source_intent |-> Get(data, "source_intent", None)]

\* StructureLevel.to_dict and from_dict
StructureLevelToDict(x) ==
    LET d0 == [structure_type |-> x.structure_type.name,
               components |-> [n \in DOMAIN x.components |->
                                  StructureComponentToDict(x.components[n])],
               connections |-> x.connections,
               source_parameters |-> x.source_parameters]
    IN  IF DOMAIN x.metadata # {} THEN DictPut(d0, "metadata", x.metadata) ELSE d0

StructureLevelFromDict(data) ==
    LET components_data == Get(data, "components", EmptyDict)
    IN  [level |-> "StructureLevel",
         structure_type |-> EnumByName("StructureType", StructureTypes,
                                       Get(data, "structure_type", "UNKNOWN")),
         components |-> [n \in DOMAIN components_data |->
                            StructureComponentFromDict(components_data[n])],
         connections |-> Get(data, "connections", << >>),
         source_parameters |-> Get(data, "source_parameters", << >>),
         metadata |-> Get(data, "metadata", EmptyDict)]

\* CodeLevel.to_dict and from_dict
CodeLevelToDict(x) ==
    LET d0 == [code_type |-> x.code_type.name, template |-> x.template,
               variables |-> [n \in DOMAIN x.variables |->
                                 CodeVariableToDict(x.variables[n])]]
        d1 == IF Truthy(x.source_structure)
              THEN DictPut(d0, "source_structure", x.source_structure) ELSE d0
    IN  IF DOMAIN x.metadata # {} THEN DictPut(d1, "metadata", x.metadata) ELSE d1

CodeLevelFromDict(data) ==
    LET variables_data == Get(data, "variables", EmptyDict)
    IN  [level |-> "CodeLevel",
         code_type |-> EnumByName("CodeType", CodeTypeNames,
                                  Get(data, "code_type", "UNKNOWN")),
         template |-> Get(data, "template", ""),
         variables |-> [n \in DOMAIN variables_data |->
                           CodeVariableFromDict(variables_data[n])],
         source_structure |-> Get(data, "source_structure", None),
         metadata |-> Get(data, "metadata", EmptyDict)]

\* x.to_dict() and cls.from_dict(data), dispatched on the class
ToDict(x) ==
    CASE x.level = "IntentLevel" -> IntentLevelToDict(x)
      [] x.level = "ParameterLevel" -> ParameterLevelToDict(x)
      [] x.level = "StructureLevel" -> StructureLevelToDict(x)
      [] x.level = "CodeLevel" -> CodeLevelToDict(x)

FromDict(level, data) ==
    CASE level = "IntentLevel" -> IntentLevelFromDict(data)
      [] level = "ParameterLevel" -> ParameterLevelFromDict(data)
      [] level = "StructureLevel" -> StructureLevelFromDict(data)
      [] level = "CodeLevel" -> CodeLevelFromDict(data)

\* What the calls on representation-level objects leave alone.
outsideIR == <<acmVars, storeVars, pattern_cache, readers, writer, last_get,
               workVars, catVars, evictVars, sweepVars, pipeVars>>

NoTrip == [level |-> "none", x |-> None, data |-> EmptyDict, back |-> None]

\* A caller turns a valid object into its dictionary and builds an object of
\* the same class from that dictionary.
RoundTrip(x) ==
    /\ last_trip' = [level |-> x.level, x |-> x, data |-> ToDict(x),
                     back |-> FromDict(x.level, ToDict(x))]
    /\ UNCHANGED <<ir, last_valid, outsideIR>>

-----------------------------------------------------------------------------
(* One representation-level object, its mutators and is_valid (base.py,     *)
(* parameter_level.py, structure_level.py, code_level.py).                  *)

\* The longest connection list the model builds.
MaxConnections == 2

NoObject == [obj |-> [level |-> "none"], is_valid |-> FALSE, stale |-> FALSE]
NoValid == [called |-> FALSE, returned |-> "none", validates |-> FALSE]

\* RepresentationLevel.__init__ under the __init__ of the class: _is_valid = False
ConstructLevel(x) ==
    /\ ir' = [obj |-> x, is_valid |-> FALSE, stale |-> FALSE]
    /\ UNCHANGED <<last_trip, last_valid, outsideIR>>

\* A mutator's last statement, self._is_valid = False, after its change.
Mutated(obj) == [obj |-> obj, is_valid |-> FALSE, stale |-> FALSE]

\* ParameterLevel.add_parameter
AddParameter(name, value) ==
    /\ ir.obj.level = "ParameterLevel"
    /\ ir' = Mutated([ir.obj EXCEPT !.parameters = DictPut(@, name, value)])
    /\ UNCHANGED <<last_trip, last_valid, outsideIR>>

\* StructureLevel.add_component
AddComponent(name, component) ==
    /\ ir.obj.level = "StructureLevel"
    /\ ir' = Mutated([ir.obj EXCEPT !.components = DictPut(@, name, component)])
    /\ UNCHANGED <<last_trip, last_valid, outsideIR>>

\* StructureLevel.add_connection
AddConnection(output_name, input_name) ==
    /\ ir.obj.level = "StructureLevel"
    /\ Len(ir.obj.connections) < MaxConnections
    /\ ir' = Mutated([ir.obj EXCEPT !.connections = Append(@, <<output_name, input_name>>)])
    /\ UNCHANGED <<last_trip, last_valid, outsideIR>>

\* CodeLevel.add_variable
AddVariable(name, variable) ==
    /\ ir.obj.level = "CodeLevel"
    /\ ir' = Mutated([ir.obj EXCEPT !.variables = DictPut(@, name, variable)])
    /\ UNCHANGED <<last_trip, last_valid, outsideIR>>

\* A caller assigns the value attribute of a contained ParameterValue or
\* StructureComponent: x.parameters[name].value = value.  No method of the
\* level runs, so _is_valid keeps what it was.
SetContainedValue(name, value) ==
    /\ \/ /\ ir.obj.level = "ParameterLevel"
          /\ name \in DOMAIN ir.obj.parameters
          /\ ir' = [ir EXCEPT !.obj.parameters[name].value = value, !.stale = ir.is_valid]
       \/ /\ ir.obj.level = "StructureLevel"
          /\ name \in DOMAIN ir.obj.components
          /\ ir' = [ir EXCEPT !.obj.components[name].value = value, !.stale = ir.is_valid]
    /\ UNCHANGED <<last_trip, last_valid, outsideIR>>

\* RepresentationLevel.is_valid: validate() runs only while _is_valid is
\* False; it returns True or raises ValidationError, which propagates.
IsValidCall ==
    /\ ir.obj.level # "none"
    /\ IF ir.is_valid
       THEN /\ last_valid' = [called |-> TRUE, returned |-> "True",
                              validates |-> Validates(ir.obj)]
            /\ UNCHANGED ir
       ELSE IF Validates(ir.obj)
       THEN /\ ir' = [ir EXCEPT !.is_valid = TRUE]
            /\ last_valid' = [called |-> TRUE, returned |-> "True", validates |-> TRUE]
       ELSE /\ last_valid' = [called |-> TRUE, returned |-> "ValidationError",
                              validates |-> FALSE]
            /\ UNCHANGED ir
    /\ UNCHANGED <<last_trip, outsideIR>>

-----------------------------------------------------------------------------
(* _clear_all_caches step by step, next to threads that register and       *)
(* unregister callbacks (adaptive_cache_manager.py).  Nothing locks the     *)
(* list: the for loop reads it through a list iterator, which keeps an      *)
(* index and stops when the index reaches the length the list has then.     *)

NoEviction == [active |-> FALSE, done |-> FALSE, index |-> 0, invoked |-> NoInvocation,
               at_start |-> {}, unregistered |-> {}]

outsideEviction == <<current_memory_usage, last_check_time, now, pm_constructed,
                     pipeline_constructed, last_check, elevated, monVars, storeVars,
                     readers, writer, last_get, workVars, catVars, irVars, sweepVars,
                     pipeVars>>

\* _clear_all_caches is entered with a callback registered.
ClearStart ==
    /\ ~eviction.active
    /\ stats.cache_clears < MaxChecks
    /\ cache_clear_callbacks # << >>
    /\ eviction' = [active |-> TRUE, done |-> FALSE, index |-> 0, invoked |-> NoInvocation,
                    at_start |-> Range(cache_clear_callbacks), unregistered |-> {}]
    /\ UNCHANGED <<cache_clear_callbacks, stats, pattern_cache, outsideEviction>>

\* One turn of the loop: the iterator hands out the element at its index.
ClearStep ==
    /\ eviction.active
    /\ eviction.index < Len(cache_clear_callbacks)
    /\ LET callback == cache_clear_callbacks[eviction.index + 1]
       IN  /\ pattern_cache' = CallbackEffect(callback, pattern_cache)
           /\ eviction' = [eviction EXCEPT !.index = @ + 1, !.invoked[callback] = @ + 1]
    /\ UNCHANGED <<cache_clear_callbacks, stats, outsideEviction>>

\* The iterator is exhausted: the clear is counted.
ClearEnd ==
    /\ eviction.active
    /\ eviction.index >= Len(cache_clear_callbacks)
    /\ stats' = [stats EXCEPT !.cache_clears = @ + 1]
    /\ eviction' = [eviction EXCEPT !.active = FALSE, !.done = TRUE]
    /\ UNCHANGED <<cache_clear_callbacks, pattern_cache, outsideEviction>>

\* Another thread runs register_cache_clear_callback.
OtherThreadRegisters(cb) ==
    /\ cache_clear_callbacks' = RegisterResult(cache_clear_callbacks, cb)
    /\ UNCHANGED <<eviction, stats, pattern_cache, outsideEviction>>

\* Another thread runs unregister_cache_clear_callback.
OtherThreadUnregisters(cb) ==
    /\ cache_clear_callbacks' = UnregisterResult(cache_clear_callbacks, cb)
    /\ eviction' = IF eviction.active
                   THEN [eviction EXCEPT !.unregistered = @ \cup {cb}]
                   ELSE eviction
    /\ UNCHANGED <<stats, pattern_cache, outsideEviction>>

-----------------------------------------------------------------------------
(* Lookups and the age-based sweep as the days pass (precompiled_patterns.py) *)

\* The last day of the model.
MaxDay == 3

NoSweep == [days |-> 0, cutoff |-> 0, deleted |-> {}]

outsideSweep == <<acmVars, readers, writer, last_get, workVars, catVars, irVars,
                  evictVars, pipeVars>>

\* time.time() moves on by a day.
DayPasses ==
    /\ clock < MaxDay
    /\ clock' = clock + 1
    /\ UNCHANGED <<rows, pattern_cache, last_op, repeated, used_at, sweep, outsideSweep>>

\* What a lookup that returned a pattern leaves in the history.
Used(id, result) == IF result = None THEN used_at ELSE DictPut(used_at, id, clock)

\* A caller runs get_pattern and obtains what it returns.
LookupById(id) ==
    LET r == GetPattern(rows, pattern_cache, id, clock, "none")
    IN  /\ rows' = r.table
        /\ pattern_cache' = r.cache
        /\ used_at' = Used(id, r.result)
        /\ Called("get_pattern", id, "none", r.result)
        /\ UNCHANGED <<clock, sweep, outsideSweep>>

\* A caller runs find_pattern_by_name and obtains what it returns.
LookupByName(name, pattern_type) ==
    LET r == FindPatternByName(rows, pattern_cache, name, pattern_type, clock)
    IN  /\ rows' = r.table
        /\ pattern_cache' = r.cache
        /\ used_at' = IF r.result = None THEN used_at
                      ELSE Used(CalculatePatternId(r.result.pattern_type,
                                                   r.result.source_code), r.result)
        /\ Called("find_pattern_by_name", <<name, pattern_type>>, "none", r.result)
        /\ UNCHANGED <<clock, sweep, outsideSweep>>

\* A caller runs clear_unused_patterns.
SweepCall(days) ==
    LET r == ClearUnusedPatterns(rows, pattern_cache, days, clock, "none")
    IN  /\ rows' = r.table
        /\ pattern_cache' = r.cache
        /\ sweep' = [days |-> days, cutoff |-> clock - days,
                     deleted |-> {x.pattern_id : x \in rows \ r.table}]
        /\ Called("clear_unused_patterns", days, "none", r.result)
        /\ UNCHANGED <<clock, used_at, outsideSweep>>

\* No worker thread runs.
InitExtOff ==
    /\ workers = [w \in Workers |-> WorkerOff]
    /\ constructions = 1
    /\ found = NoFind
    /\ catalog = NewCatalog
    /\ compile_count = [k \in Range(CatalogKeys) |-> 0]
    /\ last_init = NoInit
    /\ last_trip = NoTrip
    /\ ir = NoObject
    /\ last_valid = NoValid
    /\ eviction = NoEviction
    /\ used_at = EmptyDict
    /\ sweep = NoSweep

PatternTypes == {c[1] : c \in Contents}

-----------------------------------------------------------------------------
\* A row an earlier run of the program left in the durable table.
OldRow == NewRow(CompilePattern([name |-> "a", content |-> MainContent,
                                 metadata |-> "m1"], 0), 0)

NoCall == Record("none", None, "none", None)

InitACM ==
    /\ InitManager
    /\ InitThreads
    /\ InitExtOff
    /\ InitPipeline
    /\ rows = {OldRow}
    /\ pattern_cache = EmptyCache
    /\ clock = Today
    /\ last_op = NoCall
    /\ repeated = FALSE

NextACM ==
    \/ \E cb \in UserCallbacks : RegisterCallback(cb)
    \/ \E cb \in UserCallbacks : UnregisterCallback(cb)
    \/ ConstructPatternManager
    \/ ConstructPipeline
    \/ \E id \in RequestIds : RequestGetPattern(id)
    \/ Tick(MinCheckSeconds)
    \/ \E u \in UsageLevels : CheckMemoryUsage(u)

SpecACM == InitACM /\ [][NextACM]_vars

-----------------------------------------------------------------------------
(* The pattern store driven by one caller *)

InitStore ==
    /\ InitManagerWithStore
    /\ InitThreads
    /\ InitExtOff
    /\ InitPipeline
    /\ rows \in {{}, {OldRow}}
    /\ pattern_cache = EmptyCache
    /\ clock = Today
    /\ last_op = NoCall
    /\ repeated = FALSE

NextStore ==
    \/ \E a \in CompileArgs, f \in SaveFaults : CompileAndSave(a, f)
    \/ \E id \in PatternIds, f \in ReadFaults : GetPatternCall(id, f)
    \/ \E id \in PatternIds, f \in ReadFaults : DeletePatternCall(id, f)
    \/ \E d \in {0, 1}, f \in ReadFaults : ClearUnusedPatternsCall(d, f)

SpecStore == InitStore /\ [][NextStore]_vars

-----------------------------------------------------------------------------
(* The pattern store called from reading threads and a writing thread *)

InitConc ==
    /\ InitManagerWithStore
    /\ InitThreads
    /\ InitExtOff
    /\ InitPipeline
    /\ rows \in {{}, {OldRow}}
    /\ pattern_cache = EmptyCache
    /\ clock = Today
    /\ last_op = NoCall
    /\ repeated = FALSE

NextConc ==
    \/ \E r \in Readers : GetStart(r, SharedId)
    \/ \E r \in Readers : GetSelect(r)
    \/ \E r \in Readers : GetUpdate(r)
    \/ \E r \in Readers : GetStore(r)
    \/ \E a \in SharedArgs : SaveExecute(a)
    \/ SaveCacheClear
    \/ SaveCommit
    \/ DeleteExecute(SharedId)
    \/ DeleteCacheClear

SpecConc == InitConc /\ [][NextConc]_vars

-----------------------------------------------------------------------------
(* The conversion stages and the memoized pipeline, driven by one caller *)

InitPipe ==
    /\ InitManager
    /\ InitThreads
    /\ InitExtOff
    /\ InitPipeline
    /\ rows = {}
    /\ pattern_cache = EmptyCache
    /\ clock = Today
    /\ last_op = NoCall
    /\ repeated = FALSE

NextPipe ==
    \/ \E stage \in Stages : \E x \in StageInputs(stage) : ConvertCall(stage, x)
    \/ \E intent \in Intents, fast \in BOOLEAN : ConvertIntentToCode(intent, fast)

SpecPipe == InitPipe /\ [][NextPipe]_vars

-----------------------------------------------------------------------------
(* The pattern store called from worker threads that each save and read back *)

\* The table is empty.  The module constructs its PatternManager when it is
\* imported; the state before that construction is kept as well, so that the
\* first callers of get_pattern_manager race for it.
InitWorkers(args) ==
    /\ \/ InitManagerWithStore /\ constructions = 1
       \/ InitManager /\ constructions = 0
    /\ InitThreads
    /\ InitPipeline
    /\ rows = {}
    /\ pattern_cache = EmptyCache
    /\ clock = Today
    /\ last_op = NoCall
    /\ repeated = FALSE
    /\ workers \in {[w \in Workers |-> WorkerStart(f[w])] : f \in args}
    /\ found = NoFind
    /\ catalog = NewCatalog
    /\ compile_count = [k \in Range(CatalogKeys) |-> 0]
    /\ last_init = NoInit
    /\ last_trip = NoTrip
    /\ ir = NoObject
    /\ last_valid = NoValid
    /\ eviction = NoEviction
    /\ used_at = EmptyDict
    /\ sweep = NoSweep

InitWork == InitWorkers(WorkerArgs)

NextWork ==
    \/ \E w \in Workers : GetManagerCheck(w)
    \/ \E w \in Workers : GetManagerLocked(w)
    \/ \E w \in Workers : WorkerSaveSelect(w)
    \/ \E w \in Workers : WorkerSaveExecute(w)
    \/ \E w \in Workers : WorkerSaveCacheClear(w)
    \/ \E w \in Workers : WorkerSaveCommit(w)
    \/ \E w \in Workers : WorkerGetStart(w)
    \/ \E w \in Workers : WorkerGetSelect(w)
    \/ \E w \in Workers : WorkerGetUpdate(w)
    \/ \E w \in Workers : WorkerGetStore(w)
    \/ \E t \in PatternTypes : FindAfterWorkers(t)

SpecWork == InitWork /\ [][NextWork]_vars

-----------------------------------------------------------------------------
(* The pattern store listed by type over tables of every size up to one more *)
(* than the cap of the query                                                 *)

InitFind ==
    /\ InitManagerWithStore
    /\ InitThreads
    /\ InitPipeline
    /\ InitExtOff
    /\ rows \in {NumberedRows(n) : n \in 0..(QueryLimit + 1)}
    /\ pattern_cache = EmptyCache
    /\ clock = Today
    /\ last_op = NoCall
    /\ repeated = FALSE

NextFind ==
    \E t \in PatternTypes, f \in ReadFaults : FindByTypeCall(t, f)

SpecFind == InitFind /\ [][NextFind]_vars

-----------------------------------------------------------------------------
(* get_pattern asked for one more distinct id than the configured cache size *)

InitCache ==
    /\ InitManagerWithStore
    /\ InitThreads
    /\ InitPipeline
    /\ InitExtOff
    /\ rows \in {NumberedRows(n) : n \in {0, 1, CacheSize, CacheSize + 1}}
    /\ pattern_cache = EmptyCache
    /\ clock = Today
    /\ last_op = NoCall
    /\ repeated = FALSE

\* The ids are asked for in the order of their numbers, stored or not.
NextCache ==
    \E i \in 1..(CacheSize + 1) :
        /\ i = Cardinality(DOMAIN pattern_cache) + 1
        /\ GetPatternCall(NumberedRow(i).pattern_id, "none")

SpecCache == InitCache /\ [][NextCache]_vars

-----------------------------------------------------------------------------
(* The memoized pipeline run on intents that differ in the insertion order *)
(* of their metadata                                                       *)

NextKey ==
    \E intent \in TaggedIntents, fast \in BOOLEAN : ConvertIntentToCode(intent, fast)

SpecKey == InitPipe /\ [][NextKey]_vars

-----------------------------------------------------------------------------
(* The catalog initialized, again and again and by new catalog objects, over *)
(* a table that holds any part of the catalog from an earlier run            *)

InitCatalog ==
    /\ InitManagerWithStore
    /\ InitThreads
    /\ InitPipeline
    /\ InitExtOff
    /\ rows \in {CatalogRows(ks) : ks \in SUBSET Range(CatalogKeys)}
    /\ pattern_cache = EmptyCache
    /\ clock = Today
    /\ last_op = NoCall
    /\ repeated = FALSE

NextCatalog ==
    \/ InitializeCall(FALSE, NoFaults)
    \/ ConstructCatalog

SpecCatalog == InitCatalog /\ [][NextCatalog]_vars

-----------------------------------------------------------------------------
(* The catalog initialized over a database that may refuse the save of an *)
(* entry, and the entries looked up afterwards                            *)

\* What the database may do to the saves of one initialize call: the saves of
\* the entries in FaultyKeys may fail, as long as the entry has been compiled
\* fewer than MaxCompiles times.
\* compile_and_save calls per catalog entry after which its saves succeed.
MaxCompiles == 2

FaultyKeys == {"sine", "reverb"}
InitFaults ==
    {[k \in Range(CatalogKeys) |-> IF k \in FaultyKeys THEN g[k] ELSE "none"] :
        g \in {h \in [FaultyKeys -> SaveFaults] :
                  \A k \in FaultyKeys : h[k] # "none" => compile_count[k] < MaxCompiles}}

NextInitFail ==
    \/ \E f \in InitFaults : InitializeCall(FALSE, f)
    \/ ConstructCatalog

\* The table holds the entries whose saves never fail and any part of the
\* others.
InitInitFail ==
    /\ InitCatalog
    /\ \A k \in Range(CatalogKeys) \ FaultyKeys :
           \E r \in rows : r.name = k /\ r.pattern_type = CatalogType(k)

SpecInitFail == InitInitFail /\ [][NextInitFail]_vars

-----------------------------------------------------------------------------
(* The monitor of the cache manager started and stopped by callers *)

NextMon ==
    \/ StartMonitoring
    \/ \E joined \in BOOLEAN : StopMonitor(joined)
    \/ \E t \in 1..(MaxThreads + 1) : MonitorLoopExit(t)
    \/ \E t \in 1..(MaxThreads + 1), u \in UsageLevels : MonitorLoopCheck(t, u)
    \/ Tick(MinCheckSeconds)

SpecMon == InitACM /\ [][NextMon]_vars

-----------------------------------------------------------------------------
(* Claims about the adaptive cache manager, checked under SpecACM *)

\* What the most recent check did to the stats.
CheckWasCritical == last_check.effective /\ last_check.usage >= CriticalMemoryThreshold
ClearsAdded == stats.cache_clears - last_check.before.cache_clears
CriticalAdded == stats.critical_memory_events - last_check.before.critical_memory_events
HighAdded == stats.high_memory_events - last_check.before.high_memory_events

\* C1 as stated: a check that measures usage at or above the critical
\* threshold invokes every registered callback exactly once, records one
\* critical event and adds exactly 1 to cache_clears.
C1_CriticalCheckEvictsOnce ==
    CheckWasCritical =>
        /\ \A cb \in last_check.registered : last_check.invoked[cb] = 1
        /\ CriticalAdded = 1
        /\ ClearsAdded = 1

\* C1 amended: as above when at least one callback is registered; with no
\* callback registered the critical event is still recorded, nothing is
\* invoked and cache_clears is left unchanged.
C1_CriticalCheckEvictsOnceIfRegistered ==
    CheckWasCritical =>
        /\ \A cb \in last_check.registered : last_check.invoked[cb] = 1
        /\ \A cb \in AllCallbacks \ last_check.registered : last_check.invoked[cb] = 0
        /\ CriticalAdded = 1
        /\ HighAdded = 0
        /\ ClearsAdded = (IF last_check.registered = {} THEN 0 ELSE 1)

C1_Witness ==
    /\ CheckWasCritical
    /\ Cardinality(last_check.registered) >= 2
    /\ ClearsAdded = 1
    /\ last_check.before.total_checks >= 1

\* C17: an effective check that measures usage at or above high and below
\* critical invokes the registered callbacks and records one high-memory event
\* and no critical event; one that measures usage below high invokes no
\* callback and changes none of the high, critical and eviction counters.
C17_HighCheckEvictsAndLowerCheckDoesNothing ==
    last_check.effective =>
        /\ (/\ last_check.usage >= HighMemoryThreshold
            /\ last_check.usage < CriticalMemoryThreshold)
           => /\ \A cb \in last_check.registered : last_check.invoked[cb] = 1
              /\ HighAdded = 1
              /\ CriticalAdded = 0
        /\ last_check.usage < HighMemoryThreshold
           => /\ \A cb \in AllCallbacks : last_check.invoked[cb] = 0
              /\ HighAdded = 0
              /\ CriticalAdded = 0
              /\ ClearsAdded = 0

\* A check measured exactly the high threshold with two callbacks registered,
\* after an earlier check had already counted events.
C17_Witness ==
    /\ last_check.effective
    /\ last_check.usage = HighMemoryThreshold
    /\ Cardinality(last_check.registered) >= 2
    /\ HighAdded = 1
    /\ last_check.before.total_checks >= 1

\* C2: once an eviction has happened at or above the high threshold, no later
\* check evicts until a check has measured usage below the low threshold.
C2_NoEvictionWhileElevated ==
    [][elevated => stats'.cache_clears = stats.cache_clears]_vars

\* C8: every cache of the core is registered, so an eviction performed once the
\* pattern manager and the pipeline exist runs the clear function of the getById
\* cache and of each of the three stage caches.
C8_EvictionClearsEveryCoreCache ==
    (/\ pm_constructed
     /\ pipeline_constructed
     /\ last_check.effective
     /\ ClearsAdded = 1)
    => \A cb \in {PatternCallback} \cup StageCallbacks : last_check.invoked[cb] = 1

-----------------------------------------------------------------------------
(* Claims about the pattern store, checked under SpecStore *)

\* The save the last step performed, and what it met in the table.
SaveStep == last_op'.op = "compile_and_save"
SavedPattern == last_op'.result.pattern
SaveOutcome == last_op'.result.outcome
NameTaken(table, p) ==
    \E r \in table : /\ r.name = p.name
                     /\ r.pattern_type = p.pattern_type
                     /\ r.pattern_id # IdOf(p)
RowsOfId(table, id) == {r \in table : r.pattern_id = id}

\* C4: after any sequence of save, delete and sweep calls, failed ones
\* included, the table holds at most one row per content id and at most one
\* row per (name, pattern_type).
C4_AtMostOneRowPerKey ==
    \A r1, r2 \in rows :
        (\/ r1.pattern_id = r2.pattern_id
         \/ (r1.name = r2.name /\ r1.pattern_type = r2.pattern_type))
        => r1 = r2

C4_Witness ==
    /\ Cardinality(rows) >= 2
    /\ last_op.op = "compile_and_save"
    /\ last_op.fault = "none"
    /\ last_op.result.outcome = "DatabaseError"

\* A step that repeats the compile_and_save call before it, the store working
\* in both.
SameSaveTwice ==
    /\ last_op.op = "compile_and_save"
    /\ SaveStep
    /\ last_op'.arg = last_op.arg
    /\ last_op.fault = "none"
    /\ last_op'.fault = "none"

\* C5 as stated: compiling and saving twice with identical arguments yields
\* equal content ids and equal compiled code, both saves succeed, and the table
\* then holds exactly one row of that content id.
C5_SameArgsTwiceBothSucceed ==
    [][SameSaveTwice =>
          /\ IdOf(SavedPattern) = IdOf(last_op.result.pattern)
          /\ SavedPattern.compiled_code = last_op.result.pattern.compiled_code
          /\ last_op.result.outcome = "True"
          /\ SaveOutcome = "True"
          /\ Cardinality(RowsOfId(rows', IdOf(SavedPattern))) = 1]_vars

\* C5 amended: the content ids and the compiled codes are always equal; both
\* saves succeed and leave exactly one row of the content id unless a row of
\* another content id holds the (name, pattern_type), in which case both saves
\* fail with DatabaseError and the table is left as it was.
C5_SameArgsTwiceSucceedUnlessNameTaken ==
    [][SameSaveTwice =>
          /\ IdOf(SavedPattern) = IdOf(last_op.result.pattern)
          /\ SavedPattern.compiled_code = last_op.result.pattern.compiled_code
          /\ IF NameTaken(rows, SavedPattern)
             THEN /\ last_op.result.outcome = "DatabaseError"
                  /\ SaveOutcome = "DatabaseError"
                  /\ rows' = rows
             ELSE /\ last_op.result.outcome = "True"
                  /\ SaveOutcome = "True"
                  /\ Cardinality(RowsOfId(rows', IdOf(SavedPattern))) = 1]_vars

C5_Witness ==
    /\ repeated
    /\ last_op.op = "compile_and_save"
    /\ last_op.fault = "none"
    /\ last_op.result.outcome = "True"
    /\ Cardinality(RowsOfId(rows, IdOf(last_op.result.pattern))) = 1
    /\ Cardinality(rows) >= 2

\* C6: a save whose (name, pattern_type) belongs to a stored row of another
\* content id fails and leaves the rows exactly as they were (with
\* DatabaseError when the store itself works); a save whose (name,
\* pattern_type) no row of another content id holds succeeds when the store
\* works, and its row is then in the table.
C6_NameConflictFailsAndRollsBack ==
    [][SaveStep =>
          IF NameTaken(rows, SavedPattern)
          THEN /\ SaveOutcome # "True"
               /\ last_op'.fault = "none" => SaveOutcome = "DatabaseError"
               /\ rows' = rows
          ELSE last_op'.fault = "none" =>
                  /\ SaveOutcome = "True"
                  /\ \E r \in rows' : PatternOfRow(r) = SavedPattern]_vars

C6_Witness ==
    /\ last_op.op = "compile_and_save"
    /\ last_op.fault = "none"
    /\ last_op.result.outcome = "DatabaseError"
    /\ NameTaken(rows, last_op.result.pattern)

\* C19: a save of a pattern whose content id is already stored changes, of that
\* row, only compiled_code, metadata and the last-used time (the compilation
\* time is let change with them): the row keeps its name and its created_at,
\* and every other row is left as it was.
C19_UpsertKeepsNameAndOtherRows ==
    [][(SaveStep /\ RowsOfId(rows, IdOf(SavedPattern)) # {}) =>
          /\ \A r \in RowsOfId(rows, IdOf(SavedPattern)) :
                \E n \in rows' :
                    n = [r EXCEPT !.compiled_code = n.compiled_code,
                                  !.metadata = n.metadata,
                                  !.last_used_at = n.last_used_at,
                                  !.compilation_time = n.compilation_time]
          /\ \A r \in rows \ RowsOfId(rows, IdOf(SavedPattern)) : r \in rows'
          /\ Cardinality(rows') = Cardinality(rows)]_vars

\* C9: whatever fails in the store during a save, the caller of save gets
\* DatabaseError and no other exception.
C9_SaveRaisesOnlyDatabaseError ==
    last_op.op = "compile_and_save" =>
        last_op.result.outcome \in {"True", "DatabaseError"}

-----------------------------------------------------------------------------
(* Claims about the pattern store under concurrency, checked under SpecConc *)

\* C3: a get_pattern call that starts when every save and delete has returned,
\* and that no save or delete overlaps, returns what the table holds for the
\* id (the stored pattern, or None), also when other get_pattern calls ran
\* concurrently with the earlier save or delete.
C3_GetAfterWriteReturnsStored ==
    last_get.fresh => last_get.result = last_get.stored

-----------------------------------------------------------------------------
(* Claims about the conversion stages, checked under SpecPipe *)

\* C7: when the same valid intent is run twice in a row through the memoized
\* pipeline, both runs return a CodeLevel, the second run is a cache hit on
\* all three stages, and its output equals the first run's.
C7_SecondRunIsServedFromCache ==
    (/\ last_run # NoRun
     /\ prev_run # NoRun
     /\ last_run.intent = prev_run.intent
     /\ last_run.intent \in ValidIntents)
    => /\ ~prev_run.result.raised
       /\ ~last_run.result.raised
       /\ last_run.result.value.level = "CodeLevel"
       /\ last_run.hit = Stages
       /\ last_run.result = prev_run.result

\* C10: a convert that fails raises ConversionError naming the level of its
\* input and, when the failure is an exception raised by the validation of the
\* input, carrying that exception as its cause; no other exception type
\* leaves convert.
C10_FailedConvertRaisesConversionError ==
    (last_convert # NoConvert /\ last_convert.result.raised)
    => /\ last_convert.result.exc.type = "ConversionError"
       /\ last_convert.result.exc.source_level = last_convert.input.level
       /\ IsValid(last_convert.input).raised =>
              last_convert.result.exc.original_exception = IsValid(last_convert.input).exc

-----------------------------------------------------------------------------
(* Claims about worker threads, checked under SpecWork *)

SavedBy(w) == WorkerPattern(w)

\* C11: when several threads obtain the pattern manager and each saves a
\* pattern of its own name and content, under every interleaving one manager
\* is constructed, no save fails, the get_pattern that follows a thread's save
\* returns the pattern that thread saved, and find_patterns_by_type called
\* afterwards returns exactly the saved patterns of the type, each once.
C11_WorkersSaveAndReadBack ==
    /\ constructions <= 1
    /\ \A w \in Workers :
          /\ workers[w].saved # "DatabaseError"
          /\ workers[w].pc \in {"get_start", "get_select", "get_update", "get_store", "done"}
                => workers[w].saved = "True"
          /\ workers[w].pc = "done" => workers[w].got = SavedBy(w)
    /\ found.pattern_type # NoName =>
          /\ Range(found.result) =
                 {SavedBy(w) : w \in {v \in Workers : SavedBy(v).pattern_type = found.pattern_type}}
          /\ Len(found.result) = Cardinality(Range(found.result))

\* Both workers saved patterns of one type and read them back, and the listing
\* of that type has been made.
C11_Witness ==
    /\ AllWorkersDone
    /\ \A w \in Workers : workers[w].saved = "True" /\ workers[w].got # None
    /\ found.pattern_type = "synth_def"
    /\ Len(found.result) = Cardinality(Workers)

-----------------------------------------------------------------------------
(* Claims about find_patterns_by_type, checked under SpecFind *)

\* C12: find_patterns_by_type(t) that meets no storage failure returns one
\* entry for each stored pattern of type t and nothing else, with one read
\* query and at most one write query whatever the number of rows.
C12_FindReturnsEveryPatternOfTypeOnce ==
    (found.pattern_type # NoName /\ found.fault = "none") =>
        LET matching == {r \in found.before : r.pattern_type = found.pattern_type}
        IN  /\ Range(found.result) = {PatternOfRow(r) : r \in matching}
            /\ Len(found.result) = Cardinality(matching)
            /\ found.reads = 1
            /\ found.writes <= 1

-----------------------------------------------------------------------------
(* Claims about the cache of get_pattern, checked under SpecCache *)

\* C13: after any sequence of get_pattern calls for distinct ids the cache
\* that fronts get_pattern holds no more entries than the cache size the
\* pattern manager was configured with.
C13_CacheNeverExceedsCacheSize == Cardinality(DOMAIN pattern_cache) <= CacheSize

-----------------------------------------------------------------------------
(* Claims about the statistics of the memoized stages, checked under SpecPipe *)

\* C14: with statistics enabled every cache lookup of a memoized stage is
\* counted as exactly one hit or exactly one miss, a hit exactly when the
\* result came from the cache, so that hits + misses grows by one per lookup.
C14_EveryLookupIsOneHitOrOneMiss ==
    \A s \in last_run.lookup :
        LET hits == cache_hits[s] - last_run.hits_before[s]
            misses == cache_misses[s] - last_run.misses_before[s]
        IN  /\ hits + misses = 1
            /\ hits = 1 <=> s \in last_run.hit

-----------------------------------------------------------------------------
(* Claims about the cache key of the memoized stages, checked under SpecKey *)

DictOf(items) == FromPairs(Range(items))

\* Two intents of identical content whose metadata was inserted in different
\* orders.
SameContentOtherOrder(a, b) ==
    /\ a.intent_type = b.intent_type
    /\ a.description = b.description
    /\ a.confidence = b.confidence
    /\ DictOf(a.metadata) = DictOf(b.metadata)
    /\ a.metadata # b.metadata

\* C15: two inputs of identical content and different insertion order are
\* encoded to the same cache key, and the second of two such calls in a row
\* is a cache hit of the stage and returns what the first returned.
C15_ReorderedInputHitsSameEntry ==
    (/\ last_run # NoRun
     /\ prev_run # NoRun
     /\ SameContentOtherOrder(last_run.intent, prev_run.intent))
    => /\ StageKey("intent_to_param", last_run.intent)
            = StageKey("intent_to_param", prev_run.intent)
       /\ "intent_to_param" \in last_run.hit
       /\ last_run.result = prev_run.result

-----------------------------------------------------------------------------
(* Claims about the pattern catalog, checked under SpecCatalog *)

EveryEntryPresent(table) ==
    \A k \in Range(CatalogKeys) :
        \E r \in table : r.name = k /\ r.pattern_type = CatalogType(k)

\* C16: across initialize calls without force_recompile each catalog entry is
\* compiled and saved at most once, and a call made when every entry is
\* already present compiles nothing and writes nothing to the store.
C16_InitializeIsIdempotent ==
    /\ \A k \in Range(CatalogKeys) : compile_count[k] <= 1
    /\ (last_init.called /\ EveryEntryPresent(last_init.before)) =>
           /\ last_init.compiled = {}
           /\ last_init.writes = 0
           /\ last_init.after = last_init.before

LastUsedErased(table) == {[r EXCEPT !.last_used_at = 0] : r \in table}

\* C16, amended: across initialize calls without force_recompile each catalog
\* entry is compiled and saved at most once, and a call made when every entry
\* is already present compiles and saves nothing; what it writes to the store
\* is at most one last_used_at update per entry, made by the get_pattern that
\* looks the entry up.
C16_InitializeCompilesOnceAndOnlyTouches ==
    /\ \A k \in Range(CatalogKeys) : compile_count[k] <= 1
    /\ (last_init.called /\ EveryEntryPresent(last_init.before)) =>
           /\ last_init.compiled = {}
           /\ last_init.writes <= Len(CatalogKeys)
           /\ LastUsedErased(last_init.after) = LastUsedErased(last_init.before)

\* A catalog that was not initialized ran initialize over a table that held
\* every entry, and the lookups updated last_used_at.
C16_Witness ==
    /\ last_init.called
    /\ last_init.returned = "results"
    /\ EveryEntryPresent(last_init.before)
    /\ last_init.writes > 0
    /\ last_init.after # last_init.before

-----------------------------------------------------------------------------
(* Claims about a catalog whose saves may fail, checked under SpecInitFail *)

\* C29: whenever the catalog reports itself initialized every catalog entry
\* has a compiled pattern in the store, and an initialize call without
\* force_recompile made while an entry is missing attempts that entry again
\* instead of returning "already_initialized".
C29_InitializedMeansEveryEntryStored ==
    /\ catalog.initialized => EveryEntryPresent(rows)
    /\ (last_init.called /\ ~EveryEntryPresent(last_init.before))
          => last_init.returned = "results"

\* What initialize does hold to: an entry it reports as "existing" or
\* "compiled" has a row in the store when the call returns.
ReportedEntriesAreStored ==
    last_init.called =>
        \A k \in DOMAIN last_init.status :
            last_init.status[k] \in {"existing", "compiled"}
                => \E r \in last_init.after :
                       r.name = k /\ r.pattern_type = CatalogType(k)

-----------------------------------------------------------------------------
(* Claims about the monitor of the cache manager, checked under SpecMon *)

\* C18: start_monitoring called while a monitor is running starts no second
\* monitor, stop_monitor called while none is running changes nothing, and
\* after any sequence of start and stop calls at most one monitor thread is
\* alive.
C18_StartAndStopAreIdempotent ==
    /\ Cardinality(alive_threads) <= 1
    /\ (last_mon.op = "start_monitoring" /\ last_mon.was_running)
          => last_mon.after = last_mon.before
    /\ (last_mon.op = "stop_monitor" /\ ~last_mon.was_running)
          => last_mon.after = last_mon.before

\* A monitor was started, stopped and started again, and start_monitoring was
\* then called once more while that monitor ran.
C18_Witness ==
    /\ last_mon.op = "start_monitoring"
    /\ last_mon.was_running
    /\ threads_started >= 2
    /\ Cardinality(alive_threads) = 1

-----------------------------------------------------------------------------
(* Round trips of valid objects of the four representation levels.         *)

NextRound == \E x \in ValidObjects : RoundTrip(x)

SpecRound == InitPipe /\ [][NextRound]_vars

\* C20: for every valid Intent, Parameter, Structure and Code object x,
\* from_dict(to_dict(x)) has the field values of x: no field, optional unit,
\* source tag, variable type and connection pairs included, is lost or changed.
C20_RoundTripKeepsEveryField ==
    last_trip.level # "none" => last_trip.back = last_trip.x

\* An optional string of x, or of a value or variable x holds, is empty.
HasEmptyOptional(x) ==
    CASE x.level = "ParameterLevel" ->
             \/ x.source_intent = Str("")
             \/ \E n \in DOMAIN x.parameters : x.parameters[n].unit = Str("")
      [] x.level = "CodeLevel" ->
             \/ x.source_structure = Str("")
             \/ \E n \in DOMAIN x.variables : x.variables[n].var_type = Str("")
      [] OTHER -> FALSE

\* The round trip keeps every field of an object none of whose optional
\* strings is empty, and changes every object that has an empty one.
RoundTripLosesOnlyEmptyStrings ==
    last_trip.level # "none" =>
        (last_trip.back = last_trip.x) = ~HasEmptyOptional(last_trip.x)

-----------------------------------------------------------------------------
(* One object of a representation level, built, mutated and asked is_valid. *)

\* The values callers put into a level after building it.
AddedValues == {v \in ParameterValueObjects : v.unit = None /\ v.metadata = EmptyDict}

NextValid ==
    \/ \E x \in ParameterObjects \cup StructureObjects \cup CodeObjects :
           /\ ir = NoObject
           /\ ConstructLevel(x)
    \/ \E v \in AddedValues : AddParameter("frequency", v)
    \/ \E n \in {"osc", "out"} : \E c \in StructureComponentObjects(n) : AddComponent(n, c)
    \/ \E o, i \in {"osc", "out"} : AddConnection(o, i)
    \/ \E v \in CodeVariableObjects("freq") : AddVariable("freq", v)
    \/ \E n \in {"frequency", "osc", "out"} : \E v \in {None, Num(440)} :
           SetContainedValue(n, v)
    \/ IsValidCall

SpecValid == InitPipe /\ [][NextValid]_vars

\* C21: after any sequence of mutations of an object (adding parameters,
\* components, connections or variables, or changing a contained value),
\* is_valid() reports valid only if validate() succeeds on the object's
\* current content.
C21_IsValidReportsCurrentContent ==
    (last_valid.called /\ last_valid.returned = "True") => last_valid.validates

\* Without a change of a contained value since validate() last ran, a set
\* _is_valid flag tells that validate() succeeds on the current content.
FlagHoldsUnlessContainedValueChanged ==
    (ir.is_valid /\ ~ir.stale) => Validates(ir.obj)

-----------------------------------------------------------------------------
(* The memoized stages called one at a time, next to the plain stages.      *)

NextMemo ==
    \/ \E stage \in Stages : \E x \in StageInputs(stage) : \E fast \in BOOLEAN :
           MemoizedConvertCall(stage, x, fast)
    \/ \E stage \in Stages : \E x \in StageInputs(stage) : ConvertCall(stage, x)

SpecMemo == InitPipe /\ [][NextMemo]_vars

\* C22: for every valid stage input a memoized stage returns what the plain
\* stage returns for that input, on a miss as well as on a hit, and it raises
\* only when the plain stage raises.
C22_MemoizedStageAgreesWithPlainStage ==
    (last_memo.stage # NoName /\ ~IsValid(last_memo.input).raised) =>
        LET plain == Convert(last_memo.stage, last_memo.input)
        IN  /\ last_memo.result.raised => plain.raised
            /\ ~last_memo.result.raised => (~plain.raised /\ last_memo.result = plain)

-----------------------------------------------------------------------------
(* An eviction running while other threads register and unregister.        *)

EvictionCallbacks == {PatternCallback} \cup UserCallbacks

NextEvict ==
    \/ ClearStart
    \/ ClearStep
    \/ ClearEnd
    \/ \E cb \in EvictionCallbacks : OtherThreadRegisters(cb)
    \/ \E cb \in EvictionCallbacks : OtherThreadUnregisters(cb)

SpecEvict == InitACM /\ [][NextEvict]_vars

\* C23: during an eviction every callback that was registered before the
\* eviction started and is not itself unregistered is invoked exactly once,
\* even when another thread registers or unregisters other callbacks while
\* the eviction iterates over the list.
C23_EvictionInvokesEveryRegisteredCallbackOnce ==
    eviction.done =>
        \A cb \in eviction.at_start \ eviction.unregistered : eviction.invoked[cb] = 1

\* No callback is invoked twice by one eviction unless it was unregistered
\* and registered again while the eviction ran.
NoCallbackInvokedTwice ==
    \A cb \in AllCallbacks : cb \notin eviction.unregistered => eviction.invoked[cb] <= 1

-----------------------------------------------------------------------------
\* A monitor thread is alive and its loop test lets it perform checks.
MonitoringActive == alive_threads # {} /\ ~stop_monitoring

\* C24: if start_monitoring is the most recent of the start and stop calls,
\* the monitor loop keeps performing checks until stop_monitor is next called,
\* also when the start follows a stop_monitor whose join timed out.
C24_StartLeavesMonitoringActive ==
    last_mon.op = "start_monitoring" => MonitoringActive

\* A start_monitoring that finds no live monitor thread leaves monitoring
\* active until the next stop_monitor.
StartWithoutLiveThreadLeavesMonitoringActive ==
    (last_mon.op = "start_monitoring" /\ ~last_mon.was_running) => MonitoringActive

-----------------------------------------------------------------------------
\* C25: get_pattern returns None (not found) only if the table holds no row
\* with that id at the time of the call: a storage failure during one lookup
\* does not make a later lookup of a stored pattern return None.
C25_NotFoundOnlyIfNoRow ==
    (last_op.op = "get_pattern" /\ last_op.fault = "none" /\ last_op.result = None)
    => \A r \in rows : r.pattern_id # last_op.arg

-----------------------------------------------------------------------------
(* Saves, lookups and sweeps over several days.                            *)

SweepArgs == {a \in CompileArgs : a.name = "a" /\ a.metadata = "m1"
                                   /\ a.content # <<"synth_def", "sig">>}
SweepIds == {CalculatePatternId(a.content[1], a.content[2]) : a \in SweepArgs}

NextSweep ==
    \/ \E a \in SweepArgs : CompileAndSave(a, "none")
    \/ \E id \in SweepIds : LookupById(id)
    \/ \E a \in SweepArgs : LookupByName(a.name, a.content[1])
    \/ SweepCall(1)
    \/ DayPasses

SpecSweep == InitStore /\ [][NextSweep]_vars

\* C26: clear_unused_patterns(d) never deletes a pattern that a caller
\* obtained through get_pattern or find_pattern_by_name within the last d
\* days: every successful lookup, one answered from the cache included,
\* counts as a use.
C26_SweepKeepsPatternsUsedWithinDays ==
    last_op.op = "clear_unused_patterns" =>
        \A id \in sweep.deleted \cap DOMAIN used_at : used_at[id] < sweep.cutoff

-----------------------------------------------------------------------------
(* Two worker threads that save the same content at the same time.         *)

\* What the workers save: the same content, under one name or under two.
SameContentArgs == {f \in [Workers -> CompileArgs] :
                       \A v, w \in Workers : f[v].content = f[w].content}

InitSame == InitWorkers(SameContentArgs)

SpecSame == InitSame /\ [][NextWork]_vars

\* Every worker's save_pattern call has returned or raised.
AllSavesOver == \A w \in Workers : workers[w].saved # "none"

\* C27: when two threads save patterns with the same content id at the same
\* time, both saves complete without error and the table ends with exactly
\* one row for that id, under every interleaving of their SELECT and
\* INSERT-or-UPDATE steps.
C27_ConcurrentSavesOfOneIdBothSucceed ==
    AllSavesOver =>
        /\ \A w \in Workers : workers[w].saved = "True"
        /\ \A w \in Workers :
               Cardinality({r \in rows : r.pattern_id = IdOf(WorkerPattern(w))}) = 1

\* However the saves interleave, the table never holds two rows of one id,
\* and a save that returned has left a row of its id.
ConcurrentSavesLeaveAtMostOneRow ==
    /\ \A r1, r2 \in rows : r1.pattern_id = r2.pattern_id => r1 = r2
    /\ \A w \in Workers : workers[w].saved = "True" =>
           \E r \in rows : r.pattern_id = IdOf(WorkerPattern(w))

-----------------------------------------------------------------------------
(* Template selection of the parameter-to-structure stage, on parameter    *)
(* sets built by hand.                                                     *)

\* The parameter sets callers pass: any of the numeric parameters, with or
\* without a waveform and an effect type.
NumericParameters == {"frequency", "amplitude", "duration", "phase", "attack", "mix", "room"}
Waveforms == {"sine", "saw", "pad", "noise"}
EffectTypes == {"reverb", "delay"}
SelectInputs ==
    {[level |-> "ParameterLevel",
      parameters |-> [n \in ns \cup DOMAIN tags |->
                         IF n \in ns THEN ParameterValue(Num(50)) ELSE tags[n]],
      source_intent |-> "GENERATE_SOUND"] :
        ns \in SUBSET NumericParameters,
        tags \in {EmptyDict}
                 \cup {[waveform |-> ParameterValue(Str(w))] : w \in Waveforms}
                 \cup {[effect_type |-> ParameterValue(Str(e))] : e \in EffectTypes}
                 \cup {[waveform |-> ParameterValue(Str(w)),
                        effect_type |-> ParameterValue(Str(e))] :
                           w \in {"sine", "noise"}, e \in EffectTypes}}

NextSelect == \E x \in SelectInputs : ConvertCall("param_to_structure", x)

SpecSelect == InitPipe /\ [][NextSelect]_vars

\* The templates, by registration number, that are eligible for a parameter
\* set, and the score of a template, as the specification words them.
Eligible(ps) ==
    {i \in DOMAIN StructureTemplates :
        LET t == StructureTemplates[i]
        IN  /\ \A n \in t.required_params : n \in DOMAIN ps
            /\ t.attr \in DOMAIN ps => ps[t.attr].value.str = t.value}
Score(i, ps) ==
    LET t == StructureTemplates[i]
    IN  Cardinality(t.required_params)
            + Cardinality({n \in t.optional_params : n \in DOMAIN ps})

\* C28: template selection returns an eligible template whose score is
\* maximal among the eligible templates, the one registered first among equal
\* scores; with no eligible template the stage fails with ConversionError.
C28_SelectsFirstBestEligibleTemplate ==
    (last_convert.stage = "param_to_structure" /\ ~IsValid(last_convert.input).raised) =>
        LET ps == last_convert.input.parameters
            r == last_convert.result
        IN  IF Eligible(ps) = {}
            THEN r.raised /\ r.exc.type = "ConversionError"
            ELSE /\ ~r.raised
                 /\ \E i \in Eligible(ps) :
                        /\ r.value.metadata.template_name = StructureTemplates[i].name
                        /\ \A j \in Eligible(ps) :
                               /\ Score(j, ps) <= Score(i, ps)
                               /\ Score(j, ps) = Score(i, ps) => i <= j

\* A later template is eligible with the score of the chosen, earlier one.
C28_Witness ==
    /\ last_convert.stage = "param_to_structure"
    /\ ~last_convert.result.raised
    /\ last_convert.result.value.metadata.template_name = "basic_sine"
    /\ \E j \in Eligible(last_convert.input.parameters) :
           /\ StructureTemplates[j].name = "basic_saw"
           /\ Score(j, last_convert.input.parameters) = 4

-----------------------------------------------------------------------------
(* The three plain stages run in order by one caller, each on what the     *)
(* stage before it returned.                                               *)

\* The intents the caller starts from: valid, of type GENERATE_SOUND or
\* APPLY_EFFECT, with metadata that holds no extracted_parameters.
ChainDescriptions == {"440Hz sine wave", "saw lead", "square bass", "triangle pluck",
                      "soft tone", "reverb on the lead", "delay on the lead"}
ChainIntents ==
    [level : {"IntentLevel"},
     intent_type : {"GENERATE_SOUND", "APPLY_EFFECT"},
     description : ChainDescriptions,
     metadata : {<< >>} \cup MetadataOrders,
     confidence : {0, 50, 100}]

\* The stage that takes what a stage returned.
StageAfter(stage) ==
    CASE stage = "intent_to_param" -> "param_to_structure"
      [] stage = "param_to_structure" -> "structure_to_code"

\* The caller passes the representation the last stage returned to the next.
ConvertNext ==
    /\ last_convert.stage \in {"intent_to_param", "param_to_structure"}
    /\ ~last_convert.result.raised
    /\ ConvertCall(StageAfter(last_convert.stage), last_convert.result.value)

NextChain ==
    \/ \E intent \in ChainIntents : ConvertCall("intent_to_param", intent)
    \/ ConvertNext

SpecChain == InitPipe /\ [][NextChain]_vars

\* C30: for a valid intent of type GENERATE_SOUND or APPLY_EFFECT without
\* pre-extracted parameters, no stage of the run in order raises, and what
\* Structure-to-Code returns is a valid CodeLevel.
C30_StagesInOrderGiveValidCode ==
    last_convert.stage \in Stages =>
        /\ ~last_convert.result.raised
        /\ last_convert.stage = "structure_to_code" =>
               /\ last_convert.result.value.level = "CodeLevel"
               /\ ~IsValid(last_convert.result.value).raised

\* What the stages do hold to: a stage that returns, returns a representation
\* that validates, and a stage that does not, raises ConversionError.
StagesReturnValidOrRaiseConversionError ==
    last_convert.stage \in Stages =>
        IF last_convert.result.raised
        THEN last_convert.result.exc.type = "ConversionError"
        ELSE ~IsValid(last_convert.result.value).raised

====
